---- MODULE Spec2Model ----
(***************************************************************************)
(* Finance ledger of the DS e-commerce backend: order settlement, refund,  *)
(* withdrawal, the payment-success webhook and the database session they   *)
(* run on.                                                                 *)
(*                                                                         *)
(* Money and points are integers in hundredths (1 unit = 0.01); every      *)
(* price used below makes each configured ratio come out exact, so no      *)
(* rounding happens in the model.  Ratios are written per mille.           *)
(*                                                                         *)
(* Two kinds of database connection appear in the source and are kept      *)
(* apart here:                                                             *)
(*   - the session connection of PyMySQLAdapter (self.session), on which   *)
(*     the writes of a transaction are issued and committed together;      *)
(*   - a fresh connection from get_conn(), used for side reads.  It is a   *)
(*     different MySQL connection, so it sees only committed data, and a   *)
(*     row lock it takes (FOR UPDATE) ends when its with-block ends.       *)
(***************************************************************************)
EXTENDS Integers, Sequences, FiniteSets, TLC

VARIABLES
    db,      \* the committed contents of the database
    last,    \* the last completed service call: name, arguments, result, statements
    pre,     \* before the last completed service call: the balances, the orders marked refunded
    snap,    \* the balances before the last settle_order, while nothing else has run since
    calls,   \* the number of service calls made so far
    h,       \* the deliveries of the payment-success notification: one handler each
    sess,    \* a PyMySQLAdapter session running one transaction statement by statement
    proc,    \* service calls running at the same time, each on its own connection
    req      \* the arguments of the last completed service call, and the database before it

vars == <<db, last, pre, snap, calls, h, sess, proc, req>>
notPay == <<last, pre, snap, calls, sess, proc, req>>
notSession == <<last, pre, snap, calls, h, proc, req>>
notProc == <<last, pre, snap, calls, h, sess, req>>

----------------------------------------------------------------------------
(* Bounds of the model *)

MaxOrders == 2
MaxWithdrawals == 1
MaxCalls == 4
MaxDeliveries == 3
MaxDrops == 1
MaxProcs == 2
MaxDiscountCalls == 2
MaxLevelCalls == 3
MaxRewardCalls == 3
MaxReferralCalls == 3
MaxSplitCalls == 3
MaxTeamCalls == 3
MaxApplyCalls == 2
MaxTextLen == 3
MaxSubsidyCalls == 2
MaxLegacyCalls == 3
MaxDirectorCalls == 3

----------------------------------------------------------------------------
(* Configuration (core.config) *)

PLATFORM_MERCHANT_ID == 0
MEMBER_PRODUCT_PRICE == 10000
MAX_PURCHASE_PER_DAY == 2
POINTS_DISCOUNT_RATE == 500
TAX_RATE == 200
MAX_LEVEL == 6
WITHDRAW_MANUAL_THRESHOLD == 500000
\* per mille: the ceiling of the value of one point
MAX_POINTS_VALUE == 500

\* ALLOCATIONS: pool -> per-mille share of an order's amount
SubPools ==
    {"public_welfare", "maintain_pool", "subsidy_pool", "director_pool",
     "shop_pool", "city_pool", "branch_pool", "fund_pool"}

ALLOCATIONS ==
    [p \in SubPools \cup {"platform_revenue_pool"} |->
        CASE p = "platform_revenue_pool" -> 800
          [] p = "public_welfare" -> 10
          [] p = "maintain_pool" -> 10
          [] p = "subsidy_pool" -> 120
          [] p = "director_pool" -> 20
          [] p = "shop_pool" -> 10
          [] p = "city_pool" -> 10
          [] p = "branch_pool" -> 5
          [] p = "fund_pool" -> 15]

\* the order in which ALLOCATIONS.items() is walked
AllocationOrder ==
    <<"platform_revenue_pool", "public_welfare", "maintain_pool", "subsidy_pool",
      "director_pool", "shop_pool", "city_pool", "branch_pool", "fund_pool">>

Pools == SubPools \cup {"platform_revenue_pool", "company_points", "company_balance"}

\* amount * (permille / 1000), Decimal multiplication
Mul(amount, permille) == (amount * permille) \div 1000

----------------------------------------------------------------------------
(* Tables *)

Users == {1, 2, 3}
NoUser == 0
UserFields == {"member_points", "merchant_points", "promotion_balance", "merchant_balance"}

\* products: product id -> row
Products ==
    [pid \in {"vip", "own", "shop"} |->
        CASE pid = "vip"  -> [is_member_product |-> TRUE,  user_id |-> PLATFORM_MERCHANT_ID,
                              price |-> MEMBER_PRODUCT_PRICE]
          [] pid = "own"  -> [is_member_product |-> FALSE, user_id |-> PLATFORM_MERCHANT_ID,
                              price |-> 1000]
          [] pid = "shop" -> [is_member_product |-> FALSE, user_id |-> 1,
                              price |-> 1000]]

\* order numbers are digit strings; LIKE 'x%' is a prefix match
OrderNumbers == {<<1>>, <<1, 1>>, <<2>>}

IsPrefix(a, b) == Len(a) <= Len(b) /\ SubSeq(b, 1, Len(a)) = a

NoRow == [none |-> TRUE]

Count(s, Test(_)) == Len(SelectSeq(s, Test))

RECURSIVE SumSeq(_)
SumSeq(s) == IF s = <<>> THEN 0 ELSE Head(s) + SumSeq(Tail(s))

\* SELECT ... FROM orders WHERE order_number = no  (the id is the row's position)
OrderIds(d, no) == {i \in 1..Len(d.orders) : d.orders[i].order_number = no}
OrderId(d, no) == CHOOSE i \in OrderIds(d, no) : \A j \in OrderIds(d, no) : i <= j

\* the balances of a database state: every pool and every user-scoped account
Balances(d) ==
    [pool |-> d.finance_accounts,
     user |-> [u \in Users |-> [f \in UserFields |-> d.users[u][f]]],
     level |-> [u \in Users |-> d.users[u].member_level]]

----------------------------------------------------------------------------
(* SQL write statements.  A transaction is the sequence of write statements *)
(* it issues on the session connection; Exec runs one, ExecAll a sequence.  *)

\* UPDATE finance_accounts SET balance = balance + x WHERE account_type = a
UpdPool(a, x) == [k |-> "pool", a |-> a, x |-> x]
\* UPDATE users SET f = f + x WHERE id = u
UpdUser(u, f, x) == [k |-> "user", u |-> u, f |-> f, x |-> x]
\* UPDATE users SET f = GREATEST(f - x, 0) WHERE id = u
UpdUserFloor(u, f, x) == [k |-> "user_floor", u |-> u, f |-> f, x |-> x]
\* UPDATE users SET member_level = v WHERE id = u
SetLevel(u, v) == [k |-> "level", u |-> u, x |-> v]
\* UPDATE users SET member_level = GREATEST(member_level - 1, 0) WHERE id = u
DecLevel(u) == [k |-> "level_dec", u |-> u]
InsOrder(row) == [k |-> "order", row |-> row]
\* UPDATE orders SET refund_status = 'refunded' WHERE id = i
MarkRefund(i) == [k |-> "refund_mark", i |-> i]
InsFlow(row) == [k |-> "flow", row |-> row]
InsPointsLog(row) == [k |-> "plog", row |-> row]
InsReward(row) == [k |-> "reward", row |-> row]
InsWithdrawal(row) == [k |-> "withdrawal", row |-> row]
\* UPDATE withdrawals SET status = v WHERE id = i
SetWithdrawalStatus(i, v) == [k |-> "wd_status", i |-> i, x |-> v]
\* UPDATE orders SET status = v WHERE id = i
SetOrderStatus(i, v) == [k |-> "order_status", i |-> i, x |-> v]
InsCoupon(row) == [k |-> "coupon", row |-> row]
\* INSERT INTO users ... (a new user u)
InsUser(u) == [k |-> "new_user", u |-> u]
\* INSERT INTO user_referrals (user_id, referrer_id) VALUES (u, r), and the same with
\* ON DUPLICATE KEY UPDATE referrer_id = r
InsReferral(u, r) == [k |-> "referral", u |-> u, r |-> r]
\* UPDATE pending_rewards SET status = v WHERE id = i  (no row: no effect)
\* UPDATE users SET <f> = %s WHERE id = %s
SetUserField(u, f, v) == [k |-> "user_set", u |-> u, f |-> f, x |-> v]
InsSubsidyRecord(row) == [k |-> "subsidy_record", row |-> row]
SetRewardStatus(i, v) == [k |-> "reward_status", i |-> i, x |-> v]

Exec(d, s) ==
    CASE s.k = "pool" ->
           [d EXCEPT !.finance_accounts[s.a] = @ + s.x]
      [] s.k = "user" ->
           [d EXCEPT !.users[s.u][s.f] = @ + s.x]
      [] s.k = "user_floor" ->
           [d EXCEPT !.users[s.u][s.f] = IF @ - s.x > 0 THEN @ - s.x ELSE 0]
      [] s.k = "level" ->
           [d EXCEPT !.users[s.u].member_level = s.x]
      [] s.k = "level_dec" ->
           [d EXCEPT !.users[s.u].member_level = IF @ - 1 > 0 THEN @ - 1 ELSE 0]
      [] s.k = "order" ->
           [d EXCEPT !.orders = Append(@, s.row)]
      [] s.k = "refund_mark" ->
           [d EXCEPT !.orders[s.i].refund_status = "refunded"]
      [] s.k = "flow" ->
           [d EXCEPT !.account_flow = Append(@, s.row)]
      [] s.k = "plog" ->
           [d EXCEPT !.points_log = Append(@, s.row)]
      [] s.k = "reward" ->
           [d EXCEPT !.pending_rewards = Append(@, s.row)]
      [] s.k = "withdrawal" ->
           [d EXCEPT !.withdrawals = Append(@, s.row)]
      [] s.k = "wd_status" ->
           [d EXCEPT !.withdrawals[s.i].status = s.x]
      [] s.k = "order_status" ->
           [d EXCEPT !.orders[s.i].status = s.x]
      [] s.k = "coupon" ->
           [d EXCEPT !.coupons = Append(@, s.row)]
      [] s.k = "new_user" ->
           [d EXCEPT !.registered = @ \cup {s.u}]
      [] s.k = "referral" ->
           [d EXCEPT !.user_referrals[s.u] = s.r]
      [] s.k = "user_set" ->
           [d EXCEPT !.users[s.u][s.f] = s.x]
      [] s.k = "subsidy_record" ->
           [d EXCEPT !.weekly_subsidy_records = Append(@, s.row)]
      [] s.k = "reward_status" ->
           IF s.i \in 1..Len(d.pending_rewards)
           THEN [d EXCEPT !.pending_rewards[s.i].status = s.x]
           ELSE d

RECURSIVE ExecAll(_, _)
ExecAll(d, stmts) ==
    IF stmts = <<>> THEN d ELSE ExecAll(Exec(d, Head(stmts)), Tail(stmts))

\* the outcome of a service call: whether it committed, and what it issued
Ok(stmts) == [ok |-> TRUE, stmts |-> stmts]
Fail == [ok |-> FALSE, stmts |-> <<>>]

----------------------------------------------------------------------------
(* Balance accessor.  dc is the committed database, which is what a         *)
(* get_conn() connection reads.                                             *)

get_account_balance(dc, account_type) ==
    IF account_type \in Pools THEN dc.finance_accounts[account_type] ELSE 0

get_user_balance(dc, user_id, balance_type) ==
    IF user_id \in Users THEN dc.users[user_id][balance_type] ELSE 0

_get_balance_after(dc, account_type, related_user) ==
    IF related_user # NoUser /\ account_type \in {"promotion_balance", "merchant_balance"}
    THEN get_user_balance(dc, related_user, account_type)
    ELSE get_account_balance(dc, account_type)

_insert_account_flow(dc, account_type, related_user, change_amount, flow_type, remark) ==
    <<InsFlow([account_type |-> account_type, related_user |-> related_user,
               change_amount |-> change_amount,
               balance_after |-> _get_balance_after(dc, account_type, related_user),
               flow_type |-> flow_type, remark |-> remark])>>

_record_flow(dc, account_type, related_user, change_amount, flow_type, remark) ==
    _insert_account_flow(dc, account_type, related_user, change_amount, flow_type, remark)

_add_pool_balance(dc, account_type, amount, remark, related_user) ==
    <<UpdPool(account_type, amount)>>
    \o _insert_account_flow(dc, account_type, related_user, amount,
                            IF amount >= 0 THEN "income" ELSE "expense", remark)

\* the value _update_user_balance returns: the field re-read on a get_conn() connection
_update_user_balance_result(dc, user_id, field) == get_user_balance(dc, user_id, field)

_update_user_balance(user_id, field, delta) == <<UpdUser(user_id, field, delta)>>

_insert_points_log(user_id, change_amount, balance_after, type, related_order) ==
    <<InsPointsLog([user_id |-> user_id, change_amount |-> change_amount,
                    balance_after |-> balance_after, type |-> type,
                    related_order |-> related_order])>>

_check_pool_balance(dc, account_type, required_amount) ==
    get_account_balance(dc, account_type) >= required_amount

_check_user_balance(dc, user_id, required_amount, balance_type) ==
    get_user_balance(dc, user_id, balance_type) >= required_amount

----------------------------------------------------------------------------
(* FinanceService.settle_order *)

Remark(tag, ref) == [tag |-> tag, ref |-> ref]

\* SELECT COUNT(*) FROM orders WHERE user_id = u AND is_member_order = 1
\*   AND created_at >= NOW() - INTERVAL 24 HOUR AND status != 'refunded'
\* (every order of the model is younger than 24 hours)
check_purchase_limit(dc, user_id) ==
    Cardinality({i \in 1..Len(dc.orders) :
                    /\ dc.orders[i].user_id = user_id
                    /\ dc.orders[i].is_member_order
                    /\ dc.orders[i].status # "refunded"}) < MAX_PURCHASE_PER_DAY

\* a discount that is applied without either check
PointsDiscountUnchecked(user_points, points_to_use, amount) == TRUE

\* the two checks of _apply_points_discount
PointsDiscountAllowed(user_points, points_to_use, amount) ==
    /\ ~(user_points < points_to_use)
    /\ ~(points_to_use * POINTS_DISCOUNT_RATE > amount * 500)

_apply_points_discount(user_id, points_to_use) ==
    <<UpdUser(user_id, "member_points", -points_to_use),
      UpdPool("company_points", points_to_use)>>

\* INSERT INTO orders (the order_items row carries no balance and is left out)
_create_order(order_no, user_id, merchant_id, total_amount, original_amount, points_discount, is_member) ==
    <<InsOrder([order_number |-> order_no, user_id |-> user_id, merchant_id |-> merchant_id,
                total_amount |-> total_amount, original_amount |-> original_amount,
                points_discount |-> points_discount, is_member_order |-> is_member,
                status |-> "completed", refund_status |-> "none"])>>

\* for purpose, percent in ALLOCATIONS.items(): _add_pool_balance(purpose, amount * percent)
RECURSIVE AllocationLoop(_, _, _, _, _, _)
AllocationLoop(dc, keys, amount, skip_platform, order_id, related_user) ==
    IF keys = <<>> THEN <<>>
    ELSE (IF skip_platform /\ Head(keys) = "platform_revenue_pool" THEN <<>>
          ELSE _add_pool_balance(dc, Head(keys), Mul(amount, ALLOCATIONS[Head(keys)]),
                                 Remark("alloc", order_id), related_user))
         \o AllocationLoop(dc, Tail(keys), amount, skip_platform, order_id, related_user)

\* _allocate_funds_to_pools without the skip of the platform revenue key in its loop
AllocateFundsNoSkip(dc, order_id, total_amount) ==
    _add_pool_balance(dc, "platform_revenue_pool", Mul(total_amount, 800),
                      Remark("platform_income", order_id), NoUser)
    \o AllocationLoop(dc, AllocationOrder, total_amount, FALSE, order_id, NoUser)

_allocate_funds_to_pools(dc, order_id, total_amount) ==
    _add_pool_balance(dc, "platform_revenue_pool", Mul(total_amount, 800),
                      Remark("platform_income", order_id), NoUser)
    \o AllocationLoop(dc, AllocationOrder, total_amount, TRUE, order_id, NoUser)

\* the walk of at most n hops up user_referrals: the last referrer found
RECURSIVE WalkReferrers(_, _, _, _)
WalkReferrers(dc, current_id, n, target_referrer) ==
    IF n = 0 \/ dc.user_referrals[current_id] = NoUser THEN target_referrer
    ELSE WalkReferrers(dc, dc.user_referrals[current_id], n - 1,
                       dc.user_referrals[current_id])

\* a reward row of the whole MEMBER_PRODUCT_PRICE instead of half of it
RewardRowFullPrice(user_id, reward_type, order_id, layer) ==
    [user_id |-> user_id, reward_type |-> reward_type,
     amount |-> MEMBER_PRODUCT_PRICE, order_id |-> order_id,
     layer |-> layer, status |-> "pending"]

RewardRow(user_id, reward_type, order_id, layer) ==
    [user_id |-> user_id, reward_type |-> reward_type,
     amount |-> Mul(MEMBER_PRODUCT_PRICE, 500), order_id |-> order_id,
     layer |-> layer, status |-> "pending"]

\* _create_pending_rewards paying the referral reward whatever the old level is
CreateRewardsAnyLevel(dc, order_id, buyer_id, old_level, new_level) ==
    LET referrer == dc.user_referrals[buyer_id]
        referral == IF referrer # NoUser
                    THEN <<InsReward(RewardRow(referrer, "referral", order_id, 0))>>
                    ELSE <<>>
        target_referrer == WalkReferrers(dc, buyer_id, new_level, NoUser)
        team == IF old_level = 0 /\ new_level = 1 THEN <<>>
                ELSE IF target_referrer # NoUser
                        /\ dc.users[target_referrer].member_level >= new_level
                     THEN <<InsReward(RewardRow(target_referrer, "team", order_id, new_level))>>
                     ELSE <<>>
    IN  referral \o team

\* _create_pending_rewards without the test of the target referrer's level
CreateRewardsNoLevelGate(dc, order_id, buyer_id, old_level, new_level) ==
    LET referrer == dc.user_referrals[buyer_id]
        referral == IF old_level = 0 /\ referrer # NoUser
                    THEN <<InsReward(RewardRow(referrer, "referral", order_id, 0))>>
                    ELSE <<>>
        target_referrer == WalkReferrers(dc, buyer_id, new_level, NoUser)
        team == IF old_level = 0 /\ new_level = 1 THEN <<>>
                ELSE IF target_referrer # NoUser
                     THEN <<InsReward(RewardRow(target_referrer, "team", order_id, new_level))>>
                     ELSE <<>>
    IN  referral \o team

\* _create_pending_rewards without the return on a first star-up
CreateRewardsNoFirstStarCase(dc, order_id, buyer_id, old_level, new_level) ==
    LET referrer == dc.user_referrals[buyer_id]
        referral == IF old_level = 0 /\ referrer # NoUser
                    THEN <<InsReward(RewardRow(referrer, "referral", order_id, 0))>>
                    ELSE <<>>
        target_referrer == WalkReferrers(dc, buyer_id, new_level, NoUser)
        team == IF target_referrer # NoUser
                   /\ dc.users[target_referrer].member_level >= new_level
                THEN <<InsReward(RewardRow(target_referrer, "team", order_id, new_level))>>
                ELSE <<>>
    IN  referral \o team

_create_pending_rewards(dc, order_id, buyer_id, old_level, new_level) ==
    LET referrer == dc.user_referrals[buyer_id]
        referral == IF old_level = 0 /\ referrer # NoUser
                    THEN <<InsReward(RewardRow(referrer, "referral", order_id, 0))>>
                    ELSE <<>>
        target_layer == new_level
        target_referrer == WalkReferrers(dc, buyer_id, target_layer, NoUser)
        referrer_level == dc.users[target_referrer].member_level
        team == IF old_level = 0 /\ new_level = 1 THEN <<>>
                ELSE IF target_referrer # NoUser /\ referrer_level >= target_layer
                     THEN <<InsReward(RewardRow(target_referrer, "team", order_id, target_layer))>>
                     ELSE <<>>
    IN  referral \o team

\* a level raised without the clamp
RawLevel(old_level, quantity) == old_level + quantity

NewLevel(old_level, quantity) ==
    IF old_level + quantity < MAX_LEVEL THEN old_level + quantity ELSE MAX_LEVEL

_process_member_order(dc, order_id, user_id, user, unit_price, quantity) ==
    LET total_amount == unit_price * quantity
        old_level == user.member_level
        new_level == NewLevel(old_level, quantity)
        points_earned == unit_price * quantity
        new_points_dec == _update_user_balance_result(dc, user_id, "member_points")
    IN  _allocate_funds_to_pools(dc, order_id, total_amount)
        \o <<SetLevel(user_id, new_level)>>
        \o _update_user_balance(user_id, "member_points", points_earned)
        \o _insert_points_log(user_id, points_earned, new_points_dec, "member", order_id)
        \o _create_pending_rewards(dc, order_id, user_id, old_level, new_level)
        \o _add_pool_balance(dc, "company_points", Mul(total_amount, 200),
                             Remark("company_points", order_id), NoUser)

\* the credit of the merchant's share in _process_normal_order (third-party merchant)
MerchantShareCredit(dc, merchant_id, merchant_amount, order_id) == <<>>

_process_normal_order(dc, order_id, user_id, merchant_id, final_amount, member_level) ==
    LET funds ==
            IF merchant_id # PLATFORM_MERCHANT_ID
            THEN MerchantShareCredit(dc, merchant_id, Mul(final_amount, 800), order_id)
            ELSE _add_pool_balance(dc, "platform_revenue_pool", Mul(final_amount, 800),
                                   Remark("platform_income", order_id), NoUser)
                 \o AllocationLoop(dc, AllocationOrder, final_amount, FALSE, order_id, user_id)
        buyer_points ==
            IF member_level >= 1
            THEN _update_user_balance(user_id, "member_points", final_amount)
                 \o _insert_points_log(user_id, final_amount,
                        _update_user_balance_result(dc, user_id, "member_points"),
                        "member", order_id)
            ELSE <<>>
        merchant_points == Mul(final_amount, 200)
        seller_points ==
            IF merchant_id # PLATFORM_MERCHANT_ID /\ merchant_points > 0
            THEN _update_user_balance(merchant_id, "merchant_points", merchant_points)
                 \o _insert_points_log(merchant_id, merchant_points,
                        _update_user_balance_result(dc, merchant_id, "merchant_points"),
                        "merchant", order_id)
            ELSE <<>>
    IN  funds \o buyer_points \o seller_points

settle_order(dc, order_no, user_id, product_id, quantity, points_to_use) ==
    IF product_id \notin DOMAIN Products THEN Fail
    ELSE
    LET product == Products[product_id]
        merchant_id == product.user_id
        unit_price == product.price
        original_amount == unit_price * quantity
        user == [member_level |-> dc.users[user_id].member_level,
                 member_points |-> dc.users[user_id].member_points]
        discounted == ~product.is_member_product /\ points_to_use > 0
        points_discount == IF discounted THEN Mul(points_to_use, POINTS_DISCOUNT_RATE) ELSE 0
        final_amount == original_amount - points_discount
        order_id == Len(dc.orders) + 1
    IN  IF merchant_id # PLATFORM_MERCHANT_ID /\ merchant_id \notin Users THEN Fail
        ELSE IF product.is_member_product /\ ~check_purchase_limit(dc, user_id) THEN Fail
        ELSE IF user_id \notin Users THEN Fail
        ELSE IF discounted
                /\ ~PointsDiscountAllowed(user.member_points, points_to_use, original_amount)
             THEN Fail
        ELSE Ok((IF discounted THEN _apply_points_discount(user_id, points_to_use) ELSE <<>>)
                \o _create_order(order_no, user_id, merchant_id, final_amount,
                                 original_amount, points_discount, product.is_member_product)
                \o (IF product.is_member_product
                    THEN _process_member_order(dc, order_id, user_id, user, unit_price, quantity)
                    ELSE _process_normal_order(dc, order_id, user_id, merchant_id,
                                               final_amount, user.member_level)))

----------------------------------------------------------------------------
(* FinanceService.refund_order *)

\* cursor.execute(sql, values) formats sql % values: it raises when the number
\* of %s placeholders differs from the number of parameters passed
StatementRuns(placeholders, params) == placeholders = params

\* UPDATE users SET promotion_balance = promotion_balance - %s
\*   WHERE id = %s AND promotion_balance >= %s    with {"amount", "user_id"}
ReferrerDebitRuns == StatementRuns(3, 2)

\* the status column refund_order tests to see whether the order was refunded
RefundedAlready(order) == order.status = "refunded"

refund_order(dc, order_no) ==
    IF OrderIds(dc, order_no) = {} THEN Fail
    ELSE
    LET id == OrderId(dc, order_no)
        order == dc.orders[id]
        is_member == order.is_member_order
        user_id == order.user_id
        amount == order.total_amount
        merchant_id == order.merchant_id
        referrer == dc.user_referrals[user_id]
        merchant_amount == Mul(amount, 800)
        member_part ==
            IF is_member
            THEN <<UpdUserFloor(user_id, "member_points", order.original_amount),
                   DecLevel(user_id)>>
            ELSE <<>>
        refund_remark == Remark("refund", order_no)
    IN  IF RefundedAlready(order) THEN Fail
        ELSE IF is_member /\ referrer # NoUser /\ ~ReferrerDebitRuns THEN Fail
        ELSE IF is_member
             THEN IF ~_check_pool_balance(dc, "platform_revenue_pool", merchant_amount)
                  THEN Fail
                  ELSE Ok(member_part
                          \o _add_pool_balance(dc, "platform_revenue_pool", -merchant_amount,
                                               refund_remark, NoUser)
                          \o <<MarkRefund(id)>>)
        ELSE IF merchant_id = PLATFORM_MERCHANT_ID
             THEN Ok(_add_pool_balance(dc, "platform_revenue_pool", -merchant_amount,
                                       refund_remark, NoUser)
                     \o <<MarkRefund(id)>>)
        ELSE IF ~_check_user_balance(dc, merchant_id, merchant_amount, "merchant_balance")
             THEN Fail
             ELSE Ok(<<UpdUser(merchant_id, "merchant_balance", -merchant_amount),
                       MarkRefund(id)>>)

----------------------------------------------------------------------------
(* FinanceService.apply_withdrawal / audit_withdrawal *)

BalanceField(withdrawal_type) ==
    IF withdrawal_type = "user" THEN "promotion_balance" ELSE "merchant_balance"

\* apply_withdrawal sending an amount equal to the threshold to manual audit
ApplyWithdrawalInclusive(dc, user_id, amount, withdrawal_type) ==
    LET balance_field == BalanceField(withdrawal_type)
        tax_amount == Mul(amount, TAX_RATE)
        actual_amount == amount - tax_amount
        status == IF amount >= WITHDRAW_MANUAL_THRESHOLD THEN "pending_manual"
                  ELSE "pending_auto"
        withdrawal_id == Len(dc.withdrawals) + 1
    IN  IF ~_check_user_balance(dc, user_id, amount, balance_field) THEN Fail
        ELSE Ok(<<InsWithdrawal([user_id |-> user_id, amount |-> amount,
                                 tax_amount |-> tax_amount, actual_amount |-> actual_amount,
                                 status |-> status,
                                 withdrawal_type |-> dc.withdrawal_type_default]),
                  UpdUser(user_id, balance_field, -amount)>>
                \o _record_flow(dc, balance_field, user_id, -amount, "expense",
                                Remark("withdraw_freeze", withdrawal_id))
                \o <<UpdPool("company_balance", tax_amount)>>
                \o _record_flow(dc, "company_balance", user_id, tax_amount, "income",
                                Remark("withdraw_tax", withdrawal_id)))

apply_withdrawal(dc, user_id, amount, withdrawal_type) ==
    LET balance_field == BalanceField(withdrawal_type)
        tax_amount == Mul(amount, TAX_RATE)
        actual_amount == amount - tax_amount
        status == IF amount > WITHDRAW_MANUAL_THRESHOLD THEN "pending_manual"
                  ELSE "pending_auto"
        withdrawal_id == Len(dc.withdrawals) + 1
    IN  IF ~_check_user_balance(dc, user_id, amount, balance_field) THEN Fail
        ELSE Ok(<<InsWithdrawal([user_id |-> user_id, amount |-> amount,
                                 tax_amount |-> tax_amount, actual_amount |-> actual_amount,
                                 status |-> status,
                                 withdrawal_type |-> dc.withdrawal_type_default]),
                  UpdUser(user_id, balance_field, -amount)>>
                \o _record_flow(dc, balance_field, user_id, -amount, "expense",
                                Remark("withdraw_freeze", withdrawal_id))
                \o <<UpdPool("company_balance", tax_amount)>>
                \o _record_flow(dc, "company_balance", user_id, tax_amount, "income",
                                Remark("withdraw_tax", withdrawal_id)))

\* every status a withdrawal can have
AllWithdrawalStatuses == {"pending_auto", "pending_manual", "approved", "rejected"}

\* withdraw.status not in ['pending_auto', 'pending_manual'] raises
PendingStatuses == {"pending_auto", "pending_manual"}

audit_withdrawal(dc, withdrawal_id, approve) ==
    IF withdrawal_id \notin 1..Len(dc.withdrawals) THEN Fail
    ELSE
    LET withdraw == dc.withdrawals[withdrawal_id]
        new_status == IF approve THEN "approved" ELSE "rejected"
        balance_field == BalanceField(withdraw.withdrawal_type)
    IN  IF withdraw.status \notin PendingStatuses THEN Fail
        ELSE Ok(<<SetWithdrawalStatus(withdrawal_id, new_status)>>
                \o (IF approve
                    THEN _record_flow(dc, "withdrawal", withdraw.user_id,
                                      withdraw.actual_amount, "income",
                                      Remark("withdraw_paid", withdrawal_id))
                    ELSE <<UpdUser(withdraw.user_id, balance_field, withdraw.amount)>>
                         \o _record_flow(dc, balance_field, withdraw.user_id,
                                         withdraw.amount, "income",
                                         Remark("withdraw_rejected", withdrawal_id))))

----------------------------------------------------------------------------
(* The ledger specification: service calls run one after another, each in   *)
(* its own transaction on the session connection.                           *)

Buyers == {2, 3}
ProductIds == {"vip", "own", "shop", "gone"}
Quantities == {1, 2}
PointChoices == {0, 400, 1200}
WithdrawAmounts == {500, 2000}
WithdrawalTypes == {"user", "merchant"}

NoSession == [pc |-> "none"]

NoReq == [op |-> "none"]

NoCall == [op |-> "none", order |-> <<>>, ok |-> FALSE, stmts |-> <<>>]
NoSnap == [order |-> <<>>]

InitUsers ==
    [u \in Users |->
        [member_level |-> 0,
         member_points |-> IF u = 2 THEN 2000 ELSE 0,
         merchant_points |-> 0,
         promotion_balance |-> IF u = 2 THEN 1000 ELSE 0,
         merchant_balance |-> IF u = 1 THEN 1000 ELSE 0]]

InitReferrals == [u \in Users |-> IF u = 3 THEN 2 ELSE NoUser]

InitDb(wd_default) ==
    [finance_accounts |-> [a \in Pools |-> 0],
     users |-> InitUsers,
     user_referrals |-> InitReferrals,
     orders |-> <<>>,
     account_flow |-> <<>>,
     points_log |-> <<>>,
     pending_rewards |-> <<>>,
     withdrawals |-> <<>>,
     coupons |-> <<>>,
     weekly_subsidy_records |-> <<>>,
     registered |-> Users,
     withdrawal_type_default |-> wd_default]

\* the orders a committed refund_order has marked
Refunded(d) ==
    {d.orders[i].order_number : i \in {j \in 1..Len(d.orders) :
                                          d.orders[j].refund_status = "refunded"}}

Before(d) == [bal |-> Balances(d), refunded |-> Refunded(d)]

InitLedger ==
    /\ \E wd_default \in WithdrawalTypes : db = InitDb(wd_default)
    /\ last = NoCall
    /\ pre = Before(db)
    /\ snap = NoSnap
    /\ req = NoReq
    /\ calls = 0
    /\ h = <<>>
    /\ sess = NoSession
    /\ proc = <<>>

\* a service call returns: its transaction is committed, or rolled back as a whole
Return(op, order, r) ==
    /\ calls < MaxCalls
    /\ calls' = calls + 1
    /\ db' = IF r.ok THEN ExecAll(db, r.stmts) ELSE db
    /\ last' = [op |-> op, order |-> order, ok |-> r.ok, stmts |-> r.stmts]
    /\ pre' = Before(db)
    /\ UNCHANGED <<h, sess, proc>>

SettleOrder ==
    \E user_id \in Buyers, product_id \in ProductIds,
       quantity \in Quantities, points_to_use \in PointChoices :
        LET order_no == <<Len(db.orders) + 1>>
            r == settle_order(db, order_no, user_id, product_id, quantity, points_to_use)
        IN  /\ Len(db.orders) < MaxOrders
            /\ Return("settle_order", order_no, r)
            /\ snap' = IF r.ok THEN [order |-> order_no, bal |-> Balances(db)] ELSE NoSnap
            /\ req' = [op |-> "settle_order", order_no |-> order_no, user_id |-> user_id,
                       product_id |-> product_id, quantity |-> quantity,
                       points_to_use |-> points_to_use, before |-> db]

RefundOrder ==
    \E i \in 1..Len(db.orders) :
        LET order_no == db.orders[i].order_number
        IN  /\ Return("refund_order", order_no, refund_order(db, order_no))
            /\ snap' = IF snap # NoSnap /\ snap.order = order_no /\ last.op = "settle_order"
                       THEN snap ELSE NoSnap
            /\ req' = [op |-> "refund_order", order_no |-> order_no, before |-> db]

ApplyWithdrawal ==
    \E user_id \in Users, amount \in WithdrawAmounts, withdrawal_type \in WithdrawalTypes :
        /\ Len(db.withdrawals) < MaxWithdrawals
        /\ Return("apply_withdrawal", <<>>,
                  apply_withdrawal(db, user_id, amount, withdrawal_type))
        /\ snap' = NoSnap
        /\ req' = [op |-> "apply_withdrawal", user_id |-> user_id, amount |-> amount,
                   withdrawal_type |-> withdrawal_type, before |-> db]

AuditWithdrawal ==
    \E withdrawal_id \in 1..Len(db.withdrawals), approve \in BOOLEAN :
        /\ Return("audit_withdrawal", <<>>, audit_withdrawal(db, withdrawal_id, approve))
        /\ snap' = NoSnap
        /\ req' = [op |-> "audit_withdrawal", withdrawal_id |-> withdrawal_id,
                   approve |-> approve, before |-> db]

NextLedger == SettleOrder \/ RefundOrder \/ ApplyWithdrawal \/ AuditWithdrawal

SpecLedger == InitLedger /\ [][NextLedger]_vars

----------------------------------------------------------------------------
(* Properties of the ledger specification *)

\* the accounts: a pool, or one balance field of one user
PoolAccount(a) == [kind |-> "pool", a |-> a, u |-> NoUser]
UserAccount(u, f) == [kind |-> "user", a |-> f, u |-> u]
Accounts ==
    {PoolAccount(a) : a \in Pools} \cup {UserAccount(u, f) : u \in Users, f \in UserFields}

BalanceOf(d, acc) ==
    IF acc.kind = "pool" THEN d.finance_accounts[acc.a] ELSE d.users[acc.u][acc.a]

\* statement s changes the balance of account acc
Mutates(s, acc) ==
    IF acc.kind = "pool" THEN s.k = "pool" /\ s.a = acc.a
    ELSE s.k \in {"user", "user_floor"} /\ s.u = acc.u /\ s.f = acc.a

\* statement s inserts an audit row (account_flow or points_log) for account acc
Audits(s, acc) ==
    CASE acc.kind = "pool" ->
           s.k = "flow" /\ s.row.account_type = acc.a
      [] acc.kind = "user" /\ acc.a \in {"promotion_balance", "merchant_balance"} ->
           s.k = "flow" /\ s.row.account_type = acc.a /\ s.row.related_user = acc.u
      [] acc.kind = "user" /\ acc.a = "member_points" ->
           s.k = "plog" /\ s.row.user_id = acc.u /\ s.row.type = "member"
      [] acc.kind = "user" /\ acc.a = "merchant_points" ->
           s.k = "plog" /\ s.row.user_id = acc.u /\ s.row.type = "merchant"

\* C3: once refund_order(o) has succeeded, a later refund_order(o) fails and
\* changes no balance, points or member level.
C3_RefundAtMostOnce ==
    (last.op = "refund_order" /\ last.order \in pre.refunded)
        => (~last.ok /\ Balances(db) = pre.bal)

\* C4: in every committed settle_order, refund_order, apply_withdrawal and
\* audit_withdrawal transaction, each account has as many audit rows as balance
\* mutations: no balance is changed without its account_flow / points_log row.
C4_EveryMutationAudited ==
    last.ok =>
        \A acc \in Accounts :
            Count(last.stmts, LAMBDA s : Mutates(s, acc))
                = Count(last.stmts, LAMBDA s : Audits(s, acc))

\* C5: an audit row written by a transaction, for an account the transaction
\* does not change again afterwards, records as balance_after the balance the
\* account has once the transaction is committed.
C5_BalanceAfterIsLive ==
    last.ok =>
        \A i \in 1..Len(last.stmts) : \A acc \in Accounts :
            (/\ Audits(last.stmts[i], acc)
             /\ \A j \in (i + 1)..Len(last.stmts) : ~Mutates(last.stmts[j], acc))
                => last.stmts[i].row.balance_after = BalanceOf(db, acc)

MoneyPools == Pools \ {"company_points"}

RECURSIVE SumOver(_, _)
SumOver(S, f) ==
    IF S = {} THEN 0
    ELSE LET x == CHOOSE y \in S : TRUE IN f[x] + SumOver(S \ {x}, f)

\* what the last call added to the money pools and to the merchant's balance
PoolCredits == SumOver(MoneyPools, [a \in MoneyPools |->
                    db.finance_accounts[a] - pre.bal.pool[a]])
MerchantCredit(merchant_id) ==
    IF merchant_id \in Users
    THEN db.users[merchant_id].merchant_balance - pre.bal.user[merchant_id].merchant_balance
    ELSE 0

LastOrder == db.orders[OrderId(db, last.order)]

\* C9: a settled normal order credits the merchant's balance and the pools with
\* 0.80 x final_amount in total, for a third-party merchant and for the platform.
C9_NormalOrderConservation ==
    (last.op = "settle_order" /\ last.ok /\ ~LastOrder.is_member_order)
        => MerchantCredit(LastOrder.merchant_id) + PoolCredits
              = Mul(LastOrder.total_amount, 800)

\* C10: settle_order followed at once by refund_order of the same order brings
\* every pool, merchant and user balance, the points and the member level back
\* to the values before the settlement, and the order's status is refunded.
C10_RefundReversesSettlement ==
    (last.op = "refund_order" /\ last.ok /\ snap # NoSnap /\ snap.order = last.order)
        => (Balances(db) = snap.bal /\ LastOrder.status = "refunded")

----------------------------------------------------------------------------
(* split_order_funds / _execute_split *)

\* the merchant whose balance _execute_split credits (WHERE id=1)
SPLIT_MERCHANT_ID == 1

\* pools: pool -> per-mille share of the pool total
SplitPoolOrder ==
    <<"public_welfare", "maintain_pool", "subsidy_pool", "director_pool",
      "shop_pool", "city_pool", "branch_pool", "fund_pool">>

SplitPoolRatio ==
    [p \in SubPools |->
        CASE p = "public_welfare" -> 10
          [] p = "maintain_pool" -> 10
          [] p = "subsidy_pool" -> 120
          [] p = "director_pool" -> 20
          [] p = "shop_pool" -> 10
          [] p = "city_pool" -> 10
          [] p = "branch_pool" -> 5
          [] p = "fund_pool" -> 15]

SplitFlow(account_type, change_amount, balance_after, order_number) ==
    InsFlow([account_type |-> account_type, related_user |-> NoUser,
             change_amount |-> change_amount, balance_after |-> balance_after,
             flow_type |-> "income", remark |-> Remark("split", order_number)])

\* the loop over pools.  dv is the database as the cursor's connection sees it:
\* the committed rows with the connection's own writes applied.
RECURSIVE SplitPoolLoop(_, _, _, _)
SplitPoolLoop(dv, keys, pool_total, order_number) ==
    IF keys = <<>> THEN <<>>
    ELSE LET account_type == Head(keys)
             amt == Mul(pool_total, SplitPoolRatio[account_type])
         IN  <<UpdPool(account_type, amt),
               SplitFlow(account_type, amt, dv.finance_accounts[account_type] + amt,
                         order_number)>>
             \o SplitPoolLoop(dv, Tail(keys), pool_total, order_number)

_execute_split(dv, order_number, total) ==
    LET merchant == Mul(total, 800)
        pool_total == Mul(total, 200)
    IN  <<UpdUser(SPLIT_MERCHANT_ID, "merchant_balance", merchant),
          SplitFlow("merchant_balance", merchant,
                    dv.users[SPLIT_MERCHANT_ID].merchant_balance + merchant, order_number)>>
        \o SplitPoolLoop(dv, SplitPoolOrder, pool_total, order_number)

\* SELECT COUNT(1) FROM account_flow WHERE remark LIKE 'split: <order_number>%'
SplitFlowCount(d, order_number) ==
    Count(d.account_flow,
          LAMBDA r : r.remark.tag = "split" /\ IsPrefix(order_number, r.remark.ref))

----------------------------------------------------------------------------
(* handle_transaction_success: one handler per delivery of the notification. *)
(* A handler works on its own get_conn() connection and commits at the end.  *)

Deliveries == 1..MaxDeliveries

IdleHandler ==
    [pc |-> "idle", order |-> <<>>, id |-> 0, seen |-> "none", snapcnt |-> 0,
     split |-> FALSE, tx |-> <<>>, writes |-> 0, rowcount |-> -1, settled |-> FALSE]

PendingOrder(order_number, total_amount, delivery_way) ==
    [order_number |-> order_number, user_id |-> 2, merchant_id |-> SPLIT_MERCHANT_ID,
     total_amount |-> total_amount, original_amount |-> total_amount,
     points_discount |-> 0, is_member_order |-> FALSE, status |-> "pending_pay",
     refund_status |-> "none", delivery_way |-> delivery_way]

InitPay ==
    /\ db = [InitDb("user") EXCEPT
                !.orders = <<PendingOrder(<<1>>, 1000, "express"),
                             PendingOrder(<<1, 1>>, 1000, "pickup")>>]
    /\ h = [p \in Deliveries |-> IdleHandler]
    /\ last = NoCall
    /\ pre = Before(db)
    /\ snap = NoSnap
    /\ req = NoReq
    /\ calls = 0
    /\ sess = NoSession
    /\ proc = <<>>

\* a handler that would go on whatever the order's status is
IsAnyStatus(status) == status \in {"pending_pay", "pending_ship", "pending_recv"}

\* the test of the order's status that lets a delivery go on
IsPendingPay(status) == status = "pending_pay"

\* fs.settle_order(order_no=, user_id=, order_id=, points_to_use=, coupon_discount=,
\* external_conn=): settle_order takes no order_id, coupon_discount or external_conn,
\* so the call raises TypeError before any statement; the handler logs it and goes on
SettleCallRuns == FALSE

\* the row locks a handler holds until it commits
HoldsMerchantRow(p) == h[p].split /\ h[p].pc \in {"status", "commit"}
HoldsOrderRow(p, id) == h[p].pc = "commit" /\ h[p].id = id

\* SELECT id, user_id, status, delivery_way FROM orders WHERE order_number = %s
HRead(p, order_number) ==
    /\ h[p].pc = "idle"
    /\ IF OrderIds(db, order_number) = {}
       THEN h' = [h EXCEPT ![p].pc = "done", ![p].order = order_number]
       ELSE LET id == OrderId(db, order_number)
                status == db.orders[id].status
            IN  h' = [h EXCEPT ![p].order = order_number, ![p].id = id,
                               ![p].seen = status,
                               ![p].snapcnt = SplitFlowCount(db, order_number),
                               ![p].pc = IF IsPendingPay(status) THEN "count" ELSE "done"]
    /\ UNCHANGED <<db, notPay>>

\* the settle_order call, then the count of the order's split rows: read from the
\* connection's snapshot (REPEATABLE READ) or from what is committed by now
\* (READ COMMITTED)
HCount(p) ==
    /\ h[p].pc = "count"
    /\ ~SettleCallRuns
    /\ \E cnt \in {h[p].snapcnt, SplitFlowCount(db, h[p].order)} :
          h' = [h EXCEPT ![p].pc = IF cnt = 0 THEN "split" ELSE "status",
                         ![p].settled = SettleCallRuns]
    /\ UNCHANGED <<db, notPay>>

\* split_order_funds(out_trade_no, total_amt, is_vip, cursor=cur): its first UPDATE
\* waits for the merchant's row
HSplit(p) ==
    /\ h[p].pc = "split"
    /\ \A q \in Deliveries \ {p} : ~HoldsMerchantRow(q)
    /\ LET stmts == _execute_split(db, h[p].order, db.orders[h[p].id].total_amount)
       IN  h' = [h EXCEPT ![p].pc = "status", ![p].split = TRUE, ![p].tx = stmts,
                          ![p].writes = @ + Len(stmts)]
    /\ UNCHANGED <<db, notPay>>

NextStatus(delivery_way) == IF delivery_way = "pickup" THEN "pending_recv" ELSE "pending_ship"

\* UPDATE orders SET status = next WHERE id = %s AND status = 'pending_pay'
HStatus(p) ==
    /\ h[p].pc = "status"
    /\ \A q \in Deliveries \ {p} : ~HoldsOrderRow(q, h[p].id)
    /\ LET order == db.orders[h[p].id]
           rowcount == IF order.status = "pending_pay" THEN 1 ELSE 0
       IN  h' = [h EXCEPT ![p].pc = "commit", ![p].rowcount = rowcount,
                          ![p].writes = @ + 1,
                          ![p].tx = IF rowcount = 1
                                    THEN Append(@, SetOrderStatus(h[p].id,
                                                    NextStatus(order.delivery_way)))
                                    ELSE @]
    /\ UNCHANGED <<db, notPay>>

\* conn.commit()
HCommit(p) ==
    /\ h[p].pc = "commit"
    /\ db' = ExecAll(db, h[p].tx)
    /\ h' = [h EXCEPT ![p].pc = "done"]
    /\ UNCHANGED notPay

PayOrders == {<<1>>, <<1, 1>>, <<2>>}

HandlerStep(p) == HCount(p) \/ HSplit(p) \/ HStatus(p) \/ HCommit(p)

NextPay ==
    \E p \in Deliveries :
        \/ \E order_number \in PayOrders : HRead(p, order_number)
        \/ HandlerStep(p)

\* deliveries handled at the same time
SpecPay == InitPay /\ [][NextPay]_vars

\* deliveries handled one after the other
Quiet(p) == \A q \in Deliveries \ {p} : h[q].pc \in {"idle", "done"}

NextPaySeq ==
    \E p \in Deliveries :
        /\ Quiet(p)
        /\ \/ \E order_number \in PayOrders : HRead(p, order_number)
           \/ HandlerStep(p)

SpecPaySeq == InitPay /\ [][NextPaySeq]_vars

----------------------------------------------------------------------------
(* Properties of the payment-success handler *)

\* the split rows of exactly this order that credit the merchant
MerchantSplitRows(d, order_number) ==
    Count(d.account_flow,
          LAMBDA r : /\ r.remark.tag = "split"
                     /\ r.remark.ref = order_number
                     /\ r.account_type = "merchant_balance")

AllSplitRows(d) ==
    Count(d.account_flow,
          LAMBDA r : r.remark.tag = "split" /\ r.account_type = "merchant_balance")

Redelivered(p) == h[p].seen \in {"pending_ship", "pending_recv"}

C2_ConcurrentSplitAtMostOnce ==
    /\ \A p \in Deliveries :
          (h[p].pc = "done" /\ h[p].rowcount = 0) => ~h[p].split
    /\ \A i \in 1..Len(db.orders) :
          MerchantSplitRows(db, db.orders[i].order_number) <= 1

----------------------------------------------------------------------------
(* PyMySQLAdapter.begin / execute: one settle_order or refund_order          *)
(* transaction, statement by statement, on a connection that may drop.      *)

\* the database after a committed settle_order of order <<1>> by user 2
AfterSettle(product_id) ==
    ExecAll(InitDb("user"), settle_order(InitDb("user"), <<1>>, 2, product_id, 1, 0).stmts)

InitDrop ==
    /\ db \in {InitDb("user"), AfterSettle("vip"), AfterSettle("own"), AfterSettle("shop")}
    /\ sess = [pc |-> "idle", op |-> "none", stmts |-> <<>>, i |-> 0, conn |-> db,
               base |-> db, drops |-> 0, committed |-> FALSE]
    /\ last = NoCall
    /\ pre = Before(db)
    /\ snap = NoSnap
    /\ req = NoReq
    /\ calls = 0
    /\ h = <<>>
    /\ proc = <<>>

\* with self.session.begin(): the connection is opened, the checks of the call pass
Begin(op, r) ==
    /\ sess.pc = "idle"
    /\ r.ok
    /\ sess' = [sess EXCEPT !.pc = "open", !.op = op, !.stmts = r.stmts, !.conn = db]
    /\ UNCHANGED <<db, notSession>>

BeginSettle ==
    \E user_id \in Buyers, product_id \in ProductIds,
       quantity \in Quantities, points_to_use \in PointChoices :
        Begin("settle_order",
              settle_order(db, <<Len(db.orders) + 1>>, user_id, product_id, quantity,
                           points_to_use))

BeginRefund ==
    \E i \in 1..Len(db.orders) :
        Begin("refund_order", refund_order(db, db.orders[i].order_number))

\* self._cursor.execute(sql, values) succeeds on the session's connection
Execute ==
    /\ sess.pc = "open"
    /\ sess.i < Len(sess.stmts)
    /\ sess' = [sess EXCEPT !.i = @ + 1, !.conn = Exec(@, sess.stmts[sess.i + 1])]
    /\ UNCHANGED <<db, notSession>>

\* the connection has dropped: cursor.execute raises InterfaceError/OperationalError,
\* execute() closes the connection (the server rolls its transaction back), opens a
\* new one and runs the statement again there
ExecuteReconnect ==
    /\ sess.pc = "open"
    /\ sess.i < Len(sess.stmts)
    /\ sess.drops < MaxDrops
    /\ sess' = [sess EXCEPT !.i = @ + 1, !.drops = @ + 1,
                            !.conn = Exec(db, sess.stmts[sess.i + 1])]
    /\ UNCHANGED <<db, notSession>>

\* the retry fails too: the exception leaves begin(), which rolls back
ExecuteRetryFails ==
    /\ sess.pc = "open"
    /\ sess.i < Len(sess.stmts)
    /\ sess.drops < MaxDrops
    /\ sess' = [sess EXCEPT !.pc = "closed", !.drops = @ + 1, !.conn = db]
    /\ UNCHANGED <<db, notSession>>

\* the with-block ends: self._conn.commit()
Commit ==
    /\ sess.pc = "open"
    /\ sess.i = Len(sess.stmts)
    /\ db' = sess.conn
    /\ sess' = [sess EXCEPT !.pc = "closed", !.committed = TRUE]
    /\ UNCHANGED notSession

NextDrop ==
    BeginSettle \/ BeginRefund \/ Execute \/ ExecuteReconnect \/ ExecuteRetryFails \/ Commit

SpecDrop == InitDrop /\ [][NextDrop]_vars

\* C6: a settle_order or refund_order transaction is all-or-nothing even if the
\* connection drops partway: once the call is over, the database holds either every
\* write of the call or none of them.
C6_AllOrNothing ==
    sess.pc = "closed" =>
        \/ db = sess.base
        \/ db = ExecAll(sess.base, sess.stmts)

----------------------------------------------------------------------------
(* withdraw *)

\* SELECT merchant_balance ...; return False if the balance is below the amount;
\* UPDATE users SET merchant_balance = merchant_balance - amount; commit
withdraw(dc, amount, merchant_id) ==
    IF merchant_id \notin Users \/ dc.users[merchant_id].merchant_balance < amount
    THEN Fail
    ELSE Ok(<<UpdUser(merchant_id, "merchant_balance", -amount)>>)

----------------------------------------------------------------------------
(* Service calls at the same time.  A call first reads and checks: its       *)
(* get_conn() reads see what is committed, and the locks they take end with *)
(* their with-block.  Its UPDATEs then take row locks that last until its   *)
(* commit.                                                                  *)

Procs == 1..MaxProcs

ConcAmounts == {600}
ConcPoints == {0, 1200}
ConcProducts == {"vip", "own"}

IdleProc == [pc |-> "idle", op |-> "none", user |-> NoUser, quantity |-> 0,
             ok |-> FALSE, tx |-> <<>>, old_level |-> 0]

InitConc ==
    /\ db = InitDb("user")
    /\ proc = [p \in Procs |-> IdleProc]
    /\ last = NoCall
    /\ pre = Before(db)
    /\ snap = NoSnap
    /\ req = NoReq
    /\ calls = 0
    /\ h = <<>>
    /\ sess = NoSession

\* the rows a transaction's UPDATEs lock
RowsOf(stmts) ==
    {<<"users", stmts[i].u>> : i \in {j \in 1..Len(stmts) :
            stmts[j].k \in {"user", "user_floor", "level", "level_dec"}}}
    \cup {<<"finance_accounts", stmts[i].a>> : i \in {j \in 1..Len(stmts) :
            stmts[j].k = "pool"}}
    \cup {<<"pending_rewards", stmts[i].i>> : i \in {j \in 1..Len(stmts) :
            stmts[j].k = "reward_status"}}
    \cup {<<"withdrawals", stmts[i].i>> : i \in {j \in 1..Len(stmts) :
            stmts[j].k = "wd_status"}}

Locked(p) == IF proc[p].pc = "written" THEN RowsOf(proc[p].tx) ELSE {}

\* the checks and reads of a call have been made
Checked(p, op, user_id, quantity, r) ==
    /\ proc[p].pc = "idle"
    /\ proc' = [proc EXCEPT ![p] =
                  [pc |-> IF r.ok THEN "checked" ELSE "done", op |-> op, user |-> user_id,
                   quantity |-> quantity, ok |-> r.ok, tx |-> r.stmts,
                   old_level |-> IF user_id \in Users THEN db.users[user_id].member_level
                                 ELSE 0]]
    /\ UNCHANGED <<db, notProc>>

\* settle_order up to its first UPDATE; SELECT ... FOR UPDATE of the buyer's row on a
\* get_conn() connection waits for a transaction that has updated the row
SettleChecks(p) ==
    \E user_id \in Buyers, product_id \in ConcProducts,
       quantity \in Quantities, points_to_use \in ConcPoints :
        /\ \A q \in Procs \ {p} : <<"users", user_id>> \notin Locked(q)
        /\ Checked(p, "settle_order", user_id, quantity,
                   settle_order(db, <<p>>, user_id, product_id, quantity, points_to_use))

\* apply_withdrawal up to its INSERT: _check_user_balance on a get_conn() connection
ApplyWithdrawalChecks(p) ==
    \E user_id \in {1, 2}, amount \in ConcAmounts, withdrawal_type \in WithdrawalTypes :
        Checked(p, "apply_withdrawal", user_id, 0,
                apply_withdrawal(db, user_id, amount, withdrawal_type))

\* withdraw up to its UPDATE: a plain SELECT of the balance
WithdrawChecks(p) ==
    \E amount \in ConcAmounts :
        Checked(p, "withdraw", SPLIT_MERCHANT_ID, 0, withdraw(db, amount, SPLIT_MERCHANT_ID))

\* the UPDATEs and INSERTs of the call: they wait for the rows another transaction
\* has locked
Writes(p) ==
    /\ proc[p].pc = "checked"
    /\ \A q \in Procs \ {p} : Locked(q) \cap RowsOf(proc[p].tx) = {}
    /\ proc' = [proc EXCEPT ![p].pc = "written"]
    /\ UNCHANGED <<db, notProc>>

\* commit
Commits(p) ==
    /\ proc[p].pc = "written"
    /\ db' = ExecAll(db, proc[p].tx)
    /\ proc' = [proc EXCEPT ![p].pc = "done"]
    /\ UNCHANGED notProc

NextConc ==
    \E p \in Procs :
        \/ SettleChecks(p)
        \/ ApplyWithdrawalChecks(p)
        \/ WithdrawChecks(p)
        \/ Writes(p)
        \/ Commits(p)

SpecConc == InitConc /\ [][NextConc]_vars

\* C7: no promotion_balance, merchant_balance or member_points of a user is ever
\* negative, however apply_withdrawal, withdraw and settle_order calls with a points
\* discount interleave.
C7_NoNegativeUserBalance ==
    \A u \in Users :
        /\ db.users[u].promotion_balance >= 0
        /\ db.users[u].merchant_balance >= 0
        /\ db.users[u].member_points >= 0

ReferralRewards(d, referrer) ==
    Count(d.pending_rewards,
          LAMBDA r : r.reward_type = "referral" /\ r.user_id = referrer)

MemberPurchase(p, u) ==
    /\ proc[p].pc = "done" /\ proc[p].ok
    /\ proc[p].op = "settle_order" /\ proc[p].user = u
    /\ \E i \in 1..Len(proc[p].tx) : proc[p].tx[i].k = "level"

\* C8: two settle_order calls for one user at the same time end as if run one after
\* the other: two membership purchases of quantities q1 and q2 from level L leave
\* member_level = min(L + q1 + q2, 6) and at most one referral reward.
C8_SettlementsSerialized ==
    \A u \in Buyers :
        (MemberPurchase(1, u) /\ MemberPurchase(2, u)) =>
            /\ db.users[u].member_level
                  = NewLevel(InitUsers[u].member_level,
                             proc[1].quantity + proc[2].quantity)
            /\ ReferralRewards(db, InitReferrals[u]) <= 1

----------------------------------------------------------------------------
(* settle_order with a points discount, for users holding different points *)

PointsHeld == {500, 2000}
DiscountProducts == {"own", "shop", "vip"}
DiscountPoints == {0, 400, 1200, 2400}

InitDiscount ==
    /\ \E points \in PointsHeld :
          db = [InitDb("user") EXCEPT !.users[2].member_points = points]
    /\ last = NoCall
    /\ pre = Before(db)
    /\ snap = NoSnap
    /\ req = NoReq
    /\ calls = 0
    /\ h = <<>>
    /\ sess = NoSession
    /\ proc = <<>>

SettleWithPoints ==
    \E product_id \in DiscountProducts, quantity \in Quantities,
       points_to_use \in DiscountPoints :
        LET order_no == <<Len(db.orders) + 1>>
            r == settle_order(db, order_no, 2, product_id, quantity, points_to_use)
        IN  /\ calls < MaxDiscountCalls
            /\ Return("settle_order", order_no, r)
            /\ snap' = NoSnap
            /\ req' = [op |-> "settle_order", order_no |-> order_no, user_id |-> 2,
                       product_id |-> product_id, quantity |-> quantity,
                       points_to_use |-> points_to_use, before |-> db]

NextDiscount == SettleWithPoints

SpecDiscount == InitDiscount /\ [][NextDiscount]_vars

\* the discount asked for is above half the pre-discount amount, or the points asked
\* for are more than the user holds
OverCap ==
    /\ req.op = "settle_order"
    /\ req.product_id \in DOMAIN Products
    /\ ~Products[req.product_id].is_member_product
    /\ req.points_to_use > 0
    /\ LET original_amount == Products[req.product_id].price * req.quantity
       IN  \/ 2 * Mul(req.points_to_use, POINTS_DISCOUNT_RATE) > original_amount
           \/ req.points_to_use > req.before.users[req.user_id].member_points

\* C11: a settle_order call on a non-membership product whose points_to_use gives a
\* discount above 50% of the pre-discount amount, or exceeds the user's member_points,
\* fails and leaves every balance, the orders table and every audit table unchanged.
C11_PointCapRejects == OverCap => (~last.ok /\ db = req.before)

\* C11 witness: such a call has been made and has failed
C11_Witness == OverCap /\ ~last.ok /\ last.op = "settle_order"

----------------------------------------------------------------------------
(* UserService.upgrade_one_star, and the member level under purchases,     *)
(* refunds and upgrades                                                    *)

\* raises "already at the highest star" at level 6, else sets member_level = current + 1
upgrade_one_star(dc, user_id) ==
    IF user_id \notin Users THEN Fail
    ELSE LET current == dc.users[user_id].member_level
         IN  IF current >= 6 THEN Fail
             ELSE Ok(<<SetLevel(user_id, current + 1)>>)

StartLevels == {0, 5, 6}

InitLevel ==
    /\ \E level \in StartLevels :
          db = [InitDb("user") EXCEPT !.users[2].member_level = level]
    /\ last = NoCall
    /\ pre = Before(db)
    /\ snap = NoSnap
    /\ req = NoReq
    /\ calls = 0
    /\ h = <<>>
    /\ sess = NoSession
    /\ proc = <<>>

MemberSettle ==
    \E quantity \in Quantities :
        LET order_no == <<Len(db.orders) + 1>>
        IN  /\ calls < MaxLevelCalls
            /\ Return("settle_order", order_no,
                      settle_order(db, order_no, 2, "vip", quantity, 0))
            /\ snap' = NoSnap
            /\ req' = [op |-> "settle_order", order_no |-> order_no, user_id |-> 2,
                       product_id |-> "vip", quantity |-> quantity,
                       points_to_use |-> 0, before |-> db]

MemberRefund ==
    \E i \in 1..Len(db.orders) :
        /\ calls < MaxLevelCalls
        /\ Return("refund_order", db.orders[i].order_number,
                  refund_order(db, db.orders[i].order_number))
        /\ snap' = NoSnap
        /\ req' = [op |-> "refund_order", order_no |-> db.orders[i].order_number,
                   before |-> db]

\* upgrade_one_star runs on a get_conn() connection and does not call commit: whether
\* its UPDATE is kept when the with-block ends is decided by get_conn()
UpgradeOneStar ==
    \E user_id \in Buyers, kept \in BOOLEAN :
        LET r == upgrade_one_star(db, user_id)
        IN  /\ calls < MaxLevelCalls
            /\ Return("upgrade_one_star", <<>>, IF kept THEN r ELSE [r EXCEPT !.stmts = <<>>])
            /\ snap' = NoSnap
            /\ req' = [op |-> "upgrade_one_star", user_id |-> user_id, before |-> db]

NextLevel == MemberSettle \/ MemberRefund \/ UpgradeOneStar

SpecLevel == InitLevel /\ [][NextLevel]_vars

MembershipPurchased ==
    /\ last.op = "settle_order" /\ last.ok
    /\ Products[req.product_id].is_member_product

\* C12: after any sequence of settle_order, refund_order and upgrade_one_star calls
\* every member_level is within 0..6, and a membership purchase sets the buyer's level
\* to min(old_level + quantity, 6).
C12_LevelWithinBounds ==
    /\ \A u \in Users : db.users[u].member_level \in 0..6
    /\ MembershipPurchased =>
          LET old_level == req.before.users[req.user_id].member_level
          IN  db.users[req.user_id].member_level
                 = IF old_level + req.quantity > 6 THEN 6 ELSE old_level + req.quantity

\* C12 witness: a purchase that would pass level 6 has been clamped to 6
C12_Witness ==
    /\ MembershipPurchased
    /\ req.before.users[req.user_id].member_level + req.quantity > 6
    /\ db.users[req.user_id].member_level = 6

----------------------------------------------------------------------------
(* FinanceService.audit_and_distribute_rewards *)

\* the ids of a list in ascending order, as the SELECT returns their rows
RECURSIVE Ascending(_)
Ascending(S) ==
    IF S = {} THEN <<>>
    ELSE LET m == CHOOSE x \in S : \A y \in S : x <= y
         IN  <<m>> \o Ascending(S \ {m})

\* SELECT ... FROM pending_rewards WHERE id IN (reward_ids) AND status = 'pending'
PendingAmong(dc, reward_ids) ==
    {i \in reward_ids : i \in 1..Len(dc.pending_rewards)
                        /\ dc.pending_rewards[i].status = "pending"}

\* the coupon row; from_reward is not a column: it records which reward the loop was at
CouponRow(reward, id) ==
    [user_id |-> reward.user_id, coupon_type |-> "user", amount |-> reward.amount,
     status |-> "unused", from_reward |-> id]

RECURSIVE ApproveLoop(_, _, _)
ApproveLoop(dc, ids, coupon_id) ==
    IF ids = <<>> THEN <<>>
    ELSE LET id == Head(ids)
             reward == dc.pending_rewards[id]
         IN  <<InsCoupon(CouponRow(reward, id)), SetRewardStatus(id, "approved")>>
             \o _record_flow(dc, "coupon", reward.user_id, 0, "coupon",
                             Remark("reward_coupon", coupon_id))
             \o ApproveLoop(dc, Tail(ids), coupon_id + 1)

\* the rows the rejecting UPDATE names: WHERE id IN (reward_ids)
RejectedIds(dc, reward_ids) == reward_ids

audit_and_distribute_rewards(dc, reward_ids, approve) ==
    IF reward_ids = {} THEN Fail
    ELSE LET rewards == PendingAmong(dc, reward_ids)
         IN  IF rewards = {} THEN Fail
             ELSE IF approve
                  THEN Ok(ApproveLoop(dc, Ascending(rewards), Len(dc.coupons) + 1))
                  ELSE Ok([n \in 1..Cardinality(RejectedIds(dc, reward_ids)) |->
                             SetRewardStatus(Ascending(RejectedIds(dc, reward_ids))[n],
                                             "rejected")])

RewardIds == {1, 2, 3}

InitRewards ==
    /\ db = [InitDb("user") EXCEPT
                !.pending_rewards = <<RewardRow(2, "referral", 1, 0),
                                      RewardRow(2, "team", 1, 2)>>]
    /\ last = NoCall
    /\ pre = Before(db)
    /\ snap = NoSnap
    /\ req = NoReq
    /\ calls = 0
    /\ h = <<>>
    /\ sess = NoSession
    /\ proc = <<>>

AuditRewards ==
    \E reward_ids \in SUBSET RewardIds, approve \in BOOLEAN :
        /\ calls < MaxRewardCalls
        /\ Return("audit_and_distribute_rewards", <<>>,
                  audit_and_distribute_rewards(db, reward_ids, approve))
        /\ snap' = NoSnap
        /\ req' = [op |-> "audit_and_distribute_rewards", reward_ids |-> reward_ids,
                   approve |-> approve, before |-> db]

NextRewards == AuditRewards

SpecRewards == InitRewards /\ [][NextRewards]_vars

\* C13: a PendingReward changes status only from pending: a call of
\* audit_and_distribute_rewards leaves every reward that was not pending as it was, so
\* approved never becomes rejected and rejected never becomes approved.
C13_RewardStatusOnlyFromPending ==
    req.op = "audit_and_distribute_rewards" =>
        \A i \in 1..Len(db.pending_rewards) :
            req.before.pending_rewards[i].status # "pending"
               => db.pending_rewards[i].status = req.before.pending_rewards[i].status

----------------------------------------------------------------------------
(* audit_and_distribute_rewards calls at the same time *)

InitRewardsConc ==
    /\ db = [InitDb("user") EXCEPT
                !.pending_rewards = <<RewardRow(2, "referral", 1, 0),
                                      RewardRow(2, "team", 1, 2)>>]
    /\ proc = [p \in Procs |-> IdleProc]
    /\ last = NoCall
    /\ pre = Before(db)
    /\ snap = NoSnap
    /\ req = NoReq
    /\ calls = 0
    /\ h = <<>>
    /\ sess = NoSession

\* audit_and_distribute_rewards up to its first write: a plain SELECT of the pending
\* rows among the ids
RewardChecks(p) ==
    \E reward_ids \in SUBSET RewardIds, approve \in BOOLEAN :
        Checked(p, "audit_and_distribute_rewards", NoUser, 0,
                audit_and_distribute_rewards(db, reward_ids, approve))

NextRewardsConc ==
    \E p \in Procs : RewardChecks(p) \/ Writes(p) \/ Commits(p)

SpecRewardsConc == InitRewardsConc /\ [][NextRewardsConc]_vars

CouponsOf(d, id) == Count(d.coupons, LAMBDA c : c.from_reward = id)

\* C14: each PendingReward yields at most one Coupon, however approving calls naming
\* it are repeated or run at the same time, and an approved reward has exactly one.
C14_OneCouponPerReward ==
    \A i \in 1..Len(db.pending_rewards) :
        /\ CouponsOf(db, i) <= 1
        /\ db.pending_rewards[i].status = "approved" => CouponsOf(db, i) = 1

----------------------------------------------------------------------------
(* audit_withdrawal calls, one after another or at the same time *)

\* the database after committed apply_withdrawal calls of user 2 and of merchant 1
AfterApply(wd_default) ==
    LET d0 == InitDb(wd_default)
        d1 == ExecAll(d0, apply_withdrawal(d0, 2, 500, "user").stmts)
    IN  ExecAll(d1, apply_withdrawal(d1, 1, 500, "merchant").stmts)

InitAudit ==
    /\ \E wd_default \in WithdrawalTypes : db = AfterApply(wd_default)
    /\ proc = [p \in Procs |-> IdleProc]
    /\ last = NoCall
    /\ pre = Before(db)
    /\ snap = NoSnap
    /\ req = NoReq
    /\ calls = 0
    /\ h = <<>>
    /\ sess = NoSession

\* SELECT ... FROM withdrawals WHERE id = :withdrawal_id FOR UPDATE on the session
\* connection: it waits for a transaction holding the row, and holds the row until
\* this call commits or rolls back; then the status check
AuditLocks(p) ==
    \E withdrawal_id \in 1..Len(db.withdrawals), approve \in BOOLEAN :
        LET r == audit_withdrawal(db, withdrawal_id, approve)
        IN  /\ proc[p].pc = "idle"
            /\ \A q \in Procs \ {p} : <<"withdrawals", withdrawal_id>> \notin Locked(q)
            /\ proc' = [proc EXCEPT ![p] =
                          [pc |-> IF r.ok THEN "written" ELSE "done",
                           op |-> "audit_withdrawal", user |-> NoUser, quantity |-> 0,
                           ok |-> r.ok, tx |-> r.stmts, old_level |-> 0,
                           withdrawal_id |-> withdrawal_id,
                           seen |-> db.withdrawals[withdrawal_id].status]]
            /\ UNCHANGED <<db, notProc>>

NextAudit == \E p \in Procs : AuditLocks(p) \/ Commits(p)

SpecAudit == InitAudit /\ [][NextAudit]_vars

Audited(p, i) ==
    /\ proc[p].op = "audit_withdrawal" /\ proc[p].ok
    /\ proc[p].withdrawal_id = i

ReturnedFlows(d, i) ==
    Count(d.account_flow,
          LAMBDA r : r.remark = Remark("withdraw_rejected", i))

\* C15: a withdrawal is audited at most once: a call that finds it approved or rejected
\* fails and writes nothing, at most one call per withdrawal succeeds, and the frozen
\* amount of a rejected withdrawal is returned once.
C15_AuditedAtMostOnce ==
    /\ \A p \in Procs :
          (proc[p].op = "audit_withdrawal" /\ proc[p].seen \in {"approved", "rejected"})
              => (~proc[p].ok /\ proc[p].tx = <<>> /\ proc[p].pc = "done")
    /\ \A i \in 1..Len(db.withdrawals) :
          /\ Cardinality({p \in Procs : Audited(p, i)}) <= 1
          /\ ReturnedFlows(db, i) <= 1
          /\ ReturnedFlows(db, i) = 1 => db.withdrawals[i].status = "rejected"

\* C15 witness: a withdrawal has been rejected and its amount returned, and a later
\* call on it has failed
C15_Witness ==
    \E p, q \in Procs :
        /\ p # q
        /\ proc[p].pc = "done" /\ Audited(p, 1) /\ ReturnedFlows(db, 1) = 1
        /\ proc[q].pc = "done" /\ proc[q].op = "audit_withdrawal"
        /\ proc[q].withdrawal_id = 1 /\ ~proc[q].ok

----------------------------------------------------------------------------
(* Rejected withdrawals *)

\* the balance field apply_withdrawal debited for withdrawal i, from its audit row
FrozenField(d, i) ==
    LET n == CHOOSE n \in 1..Len(d.account_flow) :
                 d.account_flow[n].remark = Remark("withdraw_freeze", i)
    IN  d.account_flow[n].account_type

RejectedNow ==
    /\ last.op = "audit_withdrawal" /\ last.ok
    /\ req.op = "audit_withdrawal" /\ ~req.approve

\* C16: for both withdrawal types, a rejecting audit_withdrawal returns the frozen
\* amount to the balance field apply_withdrawal debited it from, so that field is back
\* at its value from before the application.
C16_RejectionReturnsToSameField ==
    RejectedNow =>
        LET w == db.withdrawals[req.withdrawal_id]
            field == FrozenField(db, req.withdrawal_id)
        IN  db.users[w.user_id][field] = req.before.users[w.user_id][field] + w.amount

----------------------------------------------------------------------------
(* Referral edges: FinanceService.set_referrer, UserService.bind_referrer,  *)
(* UserService.register                                                    *)

set_referrer(dc, user_id, referrer_id) ==
    IF referrer_id \notin dc.registered THEN Fail
    ELSE IF user_id = referrer_id THEN Fail
    ELSE IF dc.user_referrals[user_id] # NoUser THEN Fail
    ELSE Ok(<<InsReferral(user_id, referrer_id)>>)

bind_referrer(dc, user_id, referrer_id) ==
    IF user_id \notin dc.registered THEN Fail
    ELSE IF referrer_id \notin dc.registered THEN Fail
    ELSE Ok(<<InsReferral(user_id, referrer_id)>>)

\* the user row is committed; the referral row is inserted after that commit
register(dc, user_id, referrer_id) ==
    IF user_id \in dc.registered THEN Fail
    ELSE Ok(<<InsUser(user_id)>>
            \o (IF referrer_id \in dc.registered
                THEN <<InsReferral(user_id, referrer_id)>> ELSE <<>>))

InitReferral ==
    /\ db = [InitDb("user") EXCEPT !.user_referrals = [u \in Users |-> NoUser],
                                   !.registered = {1, 2}]
    /\ last = NoCall
    /\ pre = Before(db)
    /\ snap = NoSnap
    /\ req = NoReq
    /\ calls = 0
    /\ h = <<>>
    /\ sess = NoSession
    /\ proc = <<>>

ReferralCall(op, user_id, referrer_id, r) ==
    /\ calls < MaxReferralCalls
    /\ Return(op, <<>>, r)
    /\ snap' = NoSnap
    /\ req' = [op |-> op, user_id |-> user_id, referrer_id |-> referrer_id, before |-> db]

SetReferrer ==
    \E user_id \in Users, referrer_id \in Users :
        ReferralCall("set_referrer", user_id, referrer_id,
                     set_referrer(db, user_id, referrer_id))

\* bind_referrer and the referral part of register run on a get_conn() connection and
\* do not call commit after the INSERT: whether it is kept when the with-block ends is
\* decided by get_conn()
BindReferrer ==
    \E user_id \in Users, referrer_id \in Users, kept \in BOOLEAN :
        LET r == bind_referrer(db, user_id, referrer_id)
        IN  ReferralCall("bind_referrer", user_id, referrer_id,
                         IF kept THEN r ELSE [r EXCEPT !.stmts = <<>>])

Register ==
    \E user_id \in Users, referrer_id \in Users \cup {NoUser}, kept \in BOOLEAN :
        LET r == register(db, user_id, referrer_id)
        IN  ReferralCall("register", user_id, referrer_id,
                         IF kept \/ ~r.ok THEN r ELSE [r EXCEPT !.stmts = <<Head(@)>>])

NextReferral == SetReferrer \/ BindReferrer \/ Register

SpecReferral == InitReferral /\ [][NextReferral]_vars

\* C17: once a user has a referrer it never changes: no register, set_referrer or
\* bind_referrer call changes a stored referrer_id.
C17_ReferrerImmutable ==
    req.op \in {"register", "set_referrer", "bind_referrer"} =>
        \A u \in Users :
            req.before.user_referrals[u] # NoUser
               => db.user_referrals[u] = req.before.user_referrals[u]

\* following the referrer links from user u for n steps
RECURSIVE Upward(_, _, _)
Upward(d, u, n) ==
    IF n = 0 \/ d.user_referrals[u] = NoUser THEN {}
    ELSE {d.user_referrals[u]} \cup Upward(d, d.user_referrals[u], n - 1)

\* C18: the referral edges form a tree: following referrer links upward from a user
\* never returns to that user.
C18_ReferralsFormTree ==
    \A u \in Users : u \notin Upward(db, u, Cardinality(Users))

----------------------------------------------------------------------------
(* The daily limit of membership purchases, with refunds *)

InitLimit ==
    /\ db \in {InitDb("user"), AfterSettle("vip"), AfterSettle("own"), AfterSettle("shop")}
    /\ last = NoCall
    /\ pre = Before(db)
    /\ snap = NoSnap
    /\ req = NoReq
    /\ calls = 0
    /\ h = <<>>
    /\ sess = NoSession
    /\ proc = <<>>

NextLimit == MemberSettle \/ MemberRefund

SpecLimit == InitLimit /\ [][NextLimit]_vars

\* the membership orders of a user that refund_order has not refunded
LiveMemberOrders(d, user_id) ==
    {i \in 1..Len(d.orders) :
        /\ d.orders[i].user_id = user_id
        /\ d.orders[i].is_member_order
        /\ d.orders[i].order_number \notin Refunded(d)}

\* C19: settle_order for a membership product is rejected, with no order created and
\* no balance change, exactly when the user already has MAX_PURCHASE_PER_DAY membership
\* orders that are not refunded; an order refunded by refund_order no longer counts.
C19_LimitCountsLiveOrders ==
    (last.op = "settle_order" /\ req.op = "settle_order" /\ req.product_id = "vip") =>
        /\ last.ok <=> Cardinality(LiveMemberOrders(req.before, req.user_id))
                          < MAX_PURCHASE_PER_DAY
        /\ ~last.ok => db = req.before

----------------------------------------------------------------------------
(* refund_order and the balances it reverses the 80% share from *)

\* C20: after a call of refund_order the platform revenue pool and every
\* merchant_balance are at least zero, and a refund that failed left the
\* order and all balances as they were.
C20_RefundNeverOverdraws ==
    (last.op = "refund_order" /\ req.op = "refund_order") =>
        /\ db.finance_accounts["platform_revenue_pool"] >= 0
        /\ \A u \in Users : db.users[u].merchant_balance >= 0
        /\ ~last.ok => db = req.before

----------------------------------------------------------------------------
(* split_order_funds / reverse_split_on_refund on their own connection *)

\* SELECT SUM(change_amount) FROM account_flow
\*   WHERE account_type=%s AND remark LIKE 'split: <order_number>%' AND flow_type='income'
RECURSIVE SplitIncome(_, _, _)
SplitIncome(flows, account_type, order_number) ==
    IF flows = <<>> THEN 0
    ELSE LET r == Head(flows)
             hit == /\ r.account_type = account_type
                    /\ r.flow_type = "income"
                    /\ r.remark.tag = "split"
                    /\ IsPrefix(order_number, r.remark.ref)
         IN  (IF hit THEN r.change_amount ELSE 0)
             + SplitIncome(Tail(flows), account_type, order_number)

ReverseFlow(account_type, change_amount, balance_after, order_number) ==
    InsFlow([account_type |-> account_type, related_user |-> NoUser,
             change_amount |-> change_amount, balance_after |-> balance_after,
             flow_type |-> "expense", remark |-> Remark("reverse", order_number)])

RECURSIVE ReversePoolLoop(_, _, _)
ReversePoolLoop(dc, keys, order_number) ==
    IF keys = <<>> THEN <<>>
    ELSE LET account_type == Head(keys)
             pool_amt == SplitIncome(dc.account_flow, account_type, order_number)
         IN  (IF pool_amt > 0
              THEN <<UpdPool(account_type, -pool_amt),
                     ReverseFlow(account_type, -pool_amt,
                                 dc.finance_accounts[account_type] - pool_amt, order_number)>>
              ELSE <<>>)
             \o ReversePoolLoop(dc, Tail(keys), order_number)

reverse_split_on_refund(dc, order_number) ==
    LET m == SplitIncome(dc.account_flow, "merchant_balance", order_number)
    IN  Ok((IF m > 0
            THEN <<UpdUser(SPLIT_MERCHANT_ID, "merchant_balance", -m),
                   ReverseFlow("merchant_balance", -m,
                               dc.users[SPLIT_MERCHANT_ID].merchant_balance - m, order_number)>>
            ELSE <<>>)
           \o ReversePoolLoop(dc, SplitPoolOrder, order_number))

\* split_order_funds with no cursor: _execute_split on a connection of its own, committed
split_order_funds(dc, order_number, total) == Ok(_execute_split(dc, order_number, total))

SplitTotals == {1000, 3000}

InitSplit ==
    /\ db = InitDb("user")
    /\ last = NoCall
    /\ pre = Before(db)
    /\ snap = NoSnap
    /\ req = NoReq
    /\ calls = 0
    /\ h = <<>>
    /\ sess = NoSession
    /\ proc = <<>>

SplitCall(op, order_number, r) ==
    /\ calls < MaxSplitCalls
    /\ Return(op, order_number, r)
    /\ snap' = NoSnap
    /\ req' = [op |-> op, order_number |-> order_number, before |-> db]

SplitOrderFunds ==
    \E order_number \in OrderNumbers, total \in SplitTotals :
        /\ calls < MaxSplitCalls
        /\ Return("split_order_funds", order_number,
                  split_order_funds(db, order_number, total))
        /\ snap' = NoSnap
        /\ req' = [op |-> "split_order_funds", order_number |-> order_number,
                   total |-> total, before |-> db]

ReverseSplitOnRefund ==
    \E order_number \in OrderNumbers :
        SplitCall("reverse_split_on_refund", order_number,
                  reverse_split_on_refund(db, order_number))

NextSplit == SplitOrderFunds \/ ReverseSplitOnRefund

SpecSplit == InitSplit /\ [][NextSplit]_vars

\* the accounts a split credits
SplitAccounts == {UserAccount(SPLIT_MERCHANT_ID, "merchant_balance")} \cup {PoolAccount(a) : a \in SubPools}

\* the reversal rows written for exactly this order number
ReversedBefore(d, order_number) ==
    Count(d.account_flow,
          LAMBDA r : r.remark.tag = "reverse" /\ r.remark.ref = order_number) > 0

\* what the splits of exactly this order number credited to an account
RECURSIVE CreditedFor(_, _, _)
CreditedFor(flows, account_type, order_number) ==
    IF flows = <<>> THEN 0
    ELSE LET r == Head(flows)
             hit == /\ r.account_type = account_type
                    /\ r.remark.tag = "split"
                    /\ r.remark.ref = order_number
         IN  (IF hit THEN r.change_amount ELSE 0)
             + CreditedFor(Tail(flows), account_type, order_number)

\* C21: a call of reverse_split_on_refund for an order number that has a reversal
\* in account_flow already changes no balance and writes no account_flow row.
C21_ReversalIdempotent ==
    (last.op = "reverse_split_on_refund" /\ req.op = "reverse_split_on_refund"
        /\ ReversedBefore(req.before, req.order_number))
        => (Balances(db) = Balances(req.before) /\ db.account_flow = req.before.account_flow)

\* C22: the first reversal of an order number debits from the merchant balance and
\* from each pool exactly what the splits of that order number credited there, and
\* nothing that was credited for another order number.
C22_ReversalMatchesSplit ==
    (last.op = "reverse_split_on_refund" /\ req.op = "reverse_split_on_refund"
        /\ \A o \in OrderNumbers : ~ReversedBefore(req.before, o))
        => \A acc \in SplitAccounts :
              BalanceOf(req.before, acc) - BalanceOf(db, acc)
                  = CreditedFor(req.before.account_flow, acc.a, req.order_number)

----------------------------------------------------------------------------
(* Membership purchases along referral chains: _create_pending_rewards *)

\* user_referrals at the start: no edge, 3 -> 2, or 3 -> 2 -> 1
TeamChains ==
    {[u \in Users |-> NoUser],
     [u \in Users |-> IF u = 3 THEN 2 ELSE NoUser],
     [u \in Users |-> IF u = 3 THEN 2 ELSE IF u = 2 THEN 1 ELSE NoUser]}

TopLevels == {0, 2}
SponsorLevels == {0, 1, 2}
BuyerLevels == {0, 1}

InitTeam ==
    /\ \E chain \in TeamChains, l1 \in TopLevels, l2 \in SponsorLevels, l3 \in BuyerLevels :
          db = [InitDb("user") EXCEPT !.user_referrals = chain,
                                      !.users[1].member_level = l1,
                                      !.users[2].member_level = l2,
                                      !.users[3].member_level = l3]
    /\ last = NoCall
    /\ pre = Before(db)
    /\ snap = NoSnap
    /\ req = NoReq
    /\ calls = 0
    /\ h = <<>>
    /\ sess = NoSession
    /\ proc = <<>>

TeamSettle ==
    \E user_id \in Buyers, quantity \in Quantities :
        LET order_no == <<Len(db.orders) + 1>>
        IN  /\ calls < MaxTeamCalls
            /\ Return("settle_order", order_no,
                      settle_order(db, order_no, user_id, "vip", quantity, 0))
            /\ snap' = NoSnap
            /\ req' = [op |-> "settle_order", order_no |-> order_no, user_id |-> user_id,
                       product_id |-> "vip", quantity |-> quantity,
                       points_to_use |-> 0, before |-> db]

TeamRefund ==
    \E i \in 1..Len(db.orders) :
        /\ calls < MaxTeamCalls
        /\ Return("refund_order", db.orders[i].order_number,
                  refund_order(db, db.orders[i].order_number))
        /\ snap' = NoSnap
        /\ req' = [op |-> "refund_order", order_no |-> db.orders[i].order_number,
                   before |-> db]

NextTeam == TeamSettle \/ TeamRefund

SpecTeam == InitTeam /\ [][NextTeam]_vars

\* the pending_rewards rows the last call inserted
NewRewards == SubSeq(db.pending_rewards, Len(req.before.pending_rewards) + 1, Len(db.pending_rewards))

NewRewardsOf(reward_type) == SelectSeq(NewRewards, LAMBDA r : r.reward_type = reward_type)

OldLevel == req.before.users[req.user_id].member_level
BuyersReferrer == req.before.user_referrals[req.user_id]

FirstStar == MembershipPurchased /\ OldLevel = 0 /\ req.quantity = 1

\* C23 as stated: a level-0 buyer's purchase of one membership unit inserts no
\* pending_rewards row at all, referral or team, whether or not the buyer has a referrer.
C23_FirstStarCreatesNoReward == FirstStar => NewRewards = <<>>

\* C23 amended: a level-0 buyer's purchase of one membership unit inserts no team
\* reward; it inserts one referral reward when the buyer has a referrer and no
\* row at all otherwise.
C23_FirstStarCreatesNoTeamReward ==
    FirstStar =>
        /\ NewRewardsOf("team") = <<>>
        /\ Len(NewRewards) = IF BuyersReferrer # NoUser THEN 1 ELSE 0

\* C23 witness: a level-0 buyer whose referrer holds level 1 or more bought one unit
C23_Witness ==
    /\ FirstStar
    /\ BuyersReferrer # NoUser
    /\ req.before.users[BuyersReferrer].member_level >= 1

\* the referral rewards in d created by orders of this buyer
ReferralRewardsFor(d, buyer) ==
    Count(d.pending_rewards,
          LAMBDA r : r.reward_type = "referral" /\ d.orders[r.order_id].user_id = buyer)

C29_ReferralRewardOnFirstPurchase ==
    MembershipPurchased =>
        IF OldLevel = 0 /\ BuyersReferrer # NoUser
        THEN /\ Len(NewRewardsOf("referral")) = 1
             /\ NewRewardsOf("referral")[1].user_id = BuyersReferrer
             /\ NewRewardsOf("referral")[1].status = "pending"
             /\ 2 * NewRewardsOf("referral")[1].amount = MEMBER_PRODUCT_PRICE
        ELSE NewRewardsOf("referral") = <<>>

\* C29 witness: a level-0 buyer with a referrer bought two units and one referral
\* reward was inserted
C29_Witness ==
    /\ MembershipPurchased
    /\ OldLevel = 0 /\ BuyersReferrer # NoUser /\ req.quantity = 2
    /\ Len(NewRewardsOf("referral")) = 1

\* the user exactly n hops up the referral chain of u, NoUser when the chain is shorter
RECURSIVE HopsUp(_, _, _)
HopsUp(d, u, n) ==
    IF n = 0 THEN u
    ELSE IF d.user_referrals[u] = NoUser THEN NoUser
    ELSE HopsUp(d, d.user_referrals[u], n - 1)

\* C30: a team reward a membership settlement inserts is for the user exactly
\* new_level hops up the buyer's referral chain; when the chain has fewer referrers
\* than new_level the settlement inserts no team reward.
C30_TeamRewardExactlyNewLevelHops ==
    MembershipPurchased =>
        LET new_level == db.users[req.user_id].member_level
            target == HopsUp(req.before, req.user_id, new_level)
        IN  \A i \in 1..Len(NewRewardsOf("team")) :
               target # NoUser /\ NewRewardsOf("team")[i].user_id = target

----------------------------------------------------------------------------
(* What a membership settlement credits *)

PoolDelta(a) == db.finance_accounts[a] - req.before.finance_accounts[a]

\* C24: a membership settlement of total T = unit price x quantity credits
\* platform_revenue_pool with 0.80 T, each of the eight sub-pools with its configured
\* fraction of T, 0.20 T in all, company_points with 0.20 T, and the buyer's
\* member_points with T.
C24_MembershipCredits ==
    MembershipPurchased =>
        LET T == Products[req.product_id].price * req.quantity
        IN  /\ 10 * PoolDelta("platform_revenue_pool") = 8 * T
            /\ \A p \in SubPools : 1000 * PoolDelta(p) = ALLOCATIONS[p] * T
            /\ 5 * SumOver(SubPools, [p \in SubPools |-> PoolDelta(p)]) = T
            /\ 5 * PoolDelta("company_points") = T
            /\ PoolDelta("company_balance") = 0
            /\ db.users[req.user_id].member_points
                  = req.before.users[req.user_id].member_points + T

\* C24 witness: two units of the membership product were settled
C24_Witness ==
    /\ MembershipPurchased /\ req.quantity = 2
    /\ PoolDelta("platform_revenue_pool") = 16000

----------------------------------------------------------------------------
(* apply_withdrawal around the manual-audit threshold *)

HeldBalances == {1000, 600000}
ApplyAmounts == {2000, 500000, 500005}

InitApply ==
    /\ \E promotion \in HeldBalances, merchant \in HeldBalances :
          db = [InitDb("user") EXCEPT
                   !.users = [u \in Users |->
                                 [InitUsers[u] EXCEPT !.promotion_balance = promotion,
                                                      !.merchant_balance = merchant]]]
    /\ last = NoCall
    /\ pre = Before(db)
    /\ snap = NoSnap
    /\ req = NoReq
    /\ calls = 0
    /\ h = <<>>
    /\ sess = NoSession
    /\ proc = <<>>

ApplyWithdrawalAt ==
    \E user_id \in Users, amount \in ApplyAmounts, withdrawal_type \in WithdrawalTypes :
        /\ calls < MaxApplyCalls
        /\ Return("apply_withdrawal", <<>>,
                  apply_withdrawal(db, user_id, amount, withdrawal_type))
        /\ snap' = NoSnap
        /\ req' = [op |-> "apply_withdrawal", user_id |-> user_id, amount |-> amount,
                   withdrawal_type |-> withdrawal_type, before |-> db]

NextApply == ApplyWithdrawalAt

SpecApply == InitApply /\ [][NextApply]_vars

AppliedField == IF req.withdrawal_type = "user" THEN "promotion_balance" ELSE "merchant_balance"

\* the balances of d with one user field and the company balance set aside
OtherBalances(d, u, f) ==
    [a \in Accounts \ {UserAccount(u, f), PoolAccount("company_balance")} |-> BalanceOf(d, a)]

\* C25: apply_withdrawal with a covering balance inserts one withdrawal with
\* tax_amount = amount x TAX_RATE, actual_amount = amount - tax_amount and status
\* pending_manual above 5000, pending_auto up to and including 5000; it debits the
\* whole amount from the user's balance and credits the tax to company_balance.
\* Without a covering balance it inserts nothing and changes no balance.
C25_ApplyWithdrawal ==
    (last.op = "apply_withdrawal" /\ req.op = "apply_withdrawal") =>
        LET held == req.before.users[req.user_id][AppliedField]
            n == Len(req.before.withdrawals)
        IN  IF held >= req.amount
            THEN /\ last.ok
                 /\ Len(db.withdrawals) = n + 1
                 /\ db.withdrawals[n + 1].user_id = req.user_id
                 /\ db.withdrawals[n + 1].amount = req.amount
                 /\ 1000 * db.withdrawals[n + 1].tax_amount = req.amount * TAX_RATE
                 /\ db.withdrawals[n + 1].actual_amount
                       = req.amount - db.withdrawals[n + 1].tax_amount
                 /\ db.withdrawals[n + 1].status
                       = IF req.amount > 500000 THEN "pending_manual" ELSE "pending_auto"
                 /\ db.users[req.user_id][AppliedField] = held - req.amount
                 /\ db.finance_accounts["company_balance"]
                       = req.before.finance_accounts["company_balance"]
                            + db.withdrawals[n + 1].tax_amount
                 /\ OtherBalances(db, req.user_id, AppliedField)
                       = OtherBalances(req.before, req.user_id, AppliedField)
            ELSE ~last.ok /\ db = req.before

\* C25 witness: a withdrawal of exactly 5000 was applied for and is pending_auto
C25_Witness ==
    /\ last.op = "apply_withdrawal" /\ last.ok /\ req.op = "apply_withdrawal"
    /\ req.amount = 500000
    /\ db.withdrawals[Len(db.withdrawals)].status = "pending_auto"

----------------------------------------------------------------------------
(* core.table_access._quote_identifier and PyMySQLAdapter._validate_sql / execute *)
(* A string is a sequence of characters.                                        *)

Letters == {"a"}
Digits == {"1"}
Alphabet == Letters \cup Digits \cup {"_", ".", ";", " ", "-", "/", "*", "\n"}

RECURSIVE TextsUpTo(_)
TextsUpTo(n) ==
    IF n = 0 THEN {<<>>}
    ELSE TextsUpTo(n - 1)
         \cup {Append(t, c) : t \in {x \in TextsUpTo(n - 1) : Len(x) = n - 1}, c \in Alphabet}

Texts == TextsUpTo(MaxTextLen)

\* _IDENT_RE.match(name) with _IDENT_RE = ^[A-Za-z_][A-Za-z0-9_]*$ : in Python, $
\* matches at the end of the string and also just before a newline that ends it
IdentMatch(name) ==
    LET body == IF name # <<>> /\ name[Len(name)] = "\n"
                THEN SubSeq(name, 1, Len(name) - 1) ELSE name
    IN  /\ body # <<>>
        /\ body[1] \in Letters \cup {"_"}
        /\ \A i \in 2..Len(body) : body[i] \in Letters \cup Digits \cup {"_"}

\* name.split(".")
RECURSIVE SplitDots(_, _)
SplitDots(name, part) ==
    IF name = <<>> THEN <<part>>
    ELSE IF Head(name) = "." THEN <<part>> \o SplitDots(Tail(name), <<>>)
    ELSE SplitDots(Tail(name), Append(part, Head(name)))

\* the backtick character
Backtick == "BACKTICK"

Backticked(name) == <<Backtick>> \o name \o <<Backtick>>

\* ".".join(quoted_parts)
RECURSIVE JoinDots(_)
JoinDots(parts) ==
    IF Len(parts) = 1 THEN Head(parts)
    ELSE Head(parts) \o <<".">> \o JoinDots(Tail(parts))

Raised == [ok |-> FALSE, value |-> <<>>]
Returned(v) == [ok |-> TRUE, value |-> v]

_quote_identifier(name) ==
    IF IdentMatch(name) THEN Returned(Backticked(name))
    ELSE IF \E i \in 1..Len(name) : name[i] = "."
    THEN LET parts == SplitDots(name, <<>>)
         IN  IF \E i \in 1..Len(parts) : ~IdentMatch(parts[i]) THEN Raised
             ELSE Returned(JoinDots([i \in 1..Len(parts) |-> Backticked(parts[i])]))
    ELSE Raised

\* pat in sql
Contains(sql, pat) ==
    \E i \in 1..(Len(sql) - Len(pat) + 1) : SubSeq(sql, i, i + Len(pat) - 1) = pat

\* _validate_sql checking for the semicolon only
ValidateSqlSemicolonOnly(sql) == ~Contains(sql, <<";">>)

\* _validate_sql(sql) with allow_comments = False, as execute calls it: TRUE when it
\* returns, FALSE when it raises ValueError
_validate_sql(sql) ==
    ~(Contains(sql, <<";">>) \/ Contains(sql, <<"-", "-">>)
      \/ Contains(sql, <<"/", "*">>) \/ Contains(sql, <<"*", "/">>))

\* PyMySQLAdapter.execute(sql) without params: the strings handed to cursor.execute
execute(sql) == IF _validate_sql(sql) THEN Returned(<<sql>>) ELSE Raised

\* the string the next call is given
InitText ==
    /\ db = InitDb("user")
    /\ last = NoCall
    /\ pre = Before(db)
    /\ snap = NoSnap
    /\ \E text \in Texts : req = [op |-> "none", text |-> text]
    /\ calls = 0
    /\ h = <<>>
    /\ sess = NoSession
    /\ proc = <<>>

TextCall(op, r) ==
    /\ req.op = "none"
    /\ req' = [req EXCEPT !.op = op]
    /\ last' = [op |-> op, order |-> <<>>, ok |-> r.ok, stmts |-> r.value]
    /\ UNCHANGED <<db, pre, snap, calls, h, sess, proc>>

QuoteIdentifier == TextCall("_quote_identifier", _quote_identifier(req.text))

AdapterExecute == TextCall("execute", execute(req.text))

NextText == QuoteIdentifier \/ AdapterExecute

SpecText == InitText /\ [][NextText]_vars

\* a full match of [A-Za-z_][A-Za-z0-9_]*
IsIdentifier(t) ==
    /\ t # <<>>
    /\ t[1] \in Letters \cup {"_"}
    /\ \A i \in 2..Len(t) : t[i] \in Letters \cup Digits \cup {"_"}

\* the dot-separated parts of t, by position
PartsOf(t) ==
    LET dots == {0, Len(t) + 1} \cup {i \in 1..Len(t) : t[i] = "."}
    IN  {SubSeq(t, i + 1, j - 1) : <<i, j>> \in
            {d \in dots \X dots : d[1] < d[2] /\ \A k \in dots : ~(d[1] < k /\ k < d[2])}}

\* C27: _quote_identifier returns exactly for the names that are an identifier
\* [A-Za-z_][A-Za-z0-9_]* or dot-separated identifiers, and raises ValueError for
\* every other string; a returned value holds no character other than letters,
\* digits, underscore, dot and backtick.
C27_QuoteIdentifierAcceptsOnlyIdentifiers ==
    (last.op = "_quote_identifier" /\ req.op = "_quote_identifier") =>
        /\ last.ok <=> \A part \in PartsOf(req.text) : IsIdentifier(part)
        /\ \A i \in 1..Len(last.stmts) :
              last.stmts[i] \in Letters \cup Digits \cup {"_", ".", Backtick}

\* C28: execute rejects every SQL string containing ';', '--', '/*' or '*/' and
\* accepts every other one; a rejected string is not handed to the database.
C28_ValidateSqlStrict ==
    (last.op = "execute" /\ req.op = "execute") =>
        LET sql == req.text
            unsafe == \/ \E i \in 1..Len(sql) : sql[i] = ";"
                      \/ \E i \in 1..(Len(sql) - 1) :
                            <<sql[i], sql[i + 1]>> \in {<<"-", "-">>, <<"/", "*">>, <<"*", "/">>}
        IN  /\ last.ok <=> ~unsafe
            /\ last.stmts = IF unsafe THEN <<>> ELSE <<sql>>

\* C28 witness: a string with a comment marker and no semicolon was rejected
C28_Witness ==
    /\ last.op = "execute" /\ req.op = "execute" /\ ~last.ok
    /\ \A i \in 1..Len(req.text) : req.text[i] # ";"
    /\ Len(req.text) >= 2

----------------------------------------------------------------------------
(* Team rewards of a membership settlement *)

\* C31: a membership settlement inserts at most one team reward, and none on a
\* 0 -> 1 first star-up; a team reward has layer = the buyer's new level, amount half
\* of MEMBER_PRODUCT_PRICE, and a recipient whose member_level is at least that layer.
C31_TeamRewardGated ==
    MembershipPurchased =>
        LET team == NewRewardsOf("team")
            new_level == db.users[req.user_id].member_level
        IN  /\ Len(team) <= 1
            /\ \A i \in 1..Len(team) :
                  /\ ~(OldLevel = 0 /\ new_level = 1)
                  /\ team[i].layer = new_level
                  /\ 2 * team[i].amount = MEMBER_PRODUCT_PRICE
                  /\ team[i].status = "pending"
                  /\ req.before.users[team[i].user_id].member_level >= team[i].layer

\* C31 witness: a settlement inserted a team reward
C31_Witness == MembershipPurchased /\ Len(NewRewardsOf("team")) = 1

----------------------------------------------------------------------------
(* FinanceService.distribute_weekly_subsidy *)

\* what the run reads before its transaction: the pool balance, the three point
\* totals and the (id, member_points) rows, on get_conn() connections
SubsidyReads(dc) ==
    [pool_balance |-> get_account_balance(dc, "subsidy_pool"),
     user_points |-> SumOver(Users, [u \in Users |-> dc.users[u].member_points]),
     merchant_points |-> SumOver(Users, [u \in Users |-> dc.users[u].merchant_points]),
     company_points |-> dc.finance_accounts["company_points"],
     users |-> [u \in Users |-> dc.users[u].member_points]]

TotalPoints(seen) == seen.user_points + seen.merchant_points + seen.company_points

\* min(pool_balance / total_points, MAX_POINTS_VALUE), per mille
PointsValue(seen) ==
    LET points_value == (seen.pool_balance * 1000) \div TotalPoints(seen)
    IN  IF points_value > MAX_POINTS_VALUE THEN MAX_POINTS_VALUE ELSE points_value

\* one pass of a loop body: a coupon, the points set to points - deduct_points, a
\* record.  deduct_points = subsidy_amount / points_value is the points themselves.
SubsidyFor(user_id, points, points_value, coupon_type, field, coupon_id) ==
    LET subsidy_amount == Mul(points, points_value)
        deduct_points == points
        new_points == points - deduct_points
    IN  IF subsidy_amount <= 0 THEN <<>>
        ELSE <<InsCoupon([user_id |-> user_id, coupon_type |-> coupon_type,
                          amount |-> subsidy_amount, status |-> "unused",
                          from_reward |-> 0]),
               SetUserField(user_id, field, new_points),
               InsSubsidyRecord([user_id |-> user_id, subsidy_amount |-> subsidy_amount,
                                 points_before |-> points, points_deducted |-> deduct_points,
                                 coupon_id |-> coupon_id])>>

\* for holder in holders: the rows with positive points, in id order
RECURSIVE SubsidyLoop(_, _, _, _, _, _)
SubsidyLoop(ids, points, points_value, coupon_type, field, coupon_id) ==
    IF ids = <<>> THEN <<>>
    ELSE LET stmts == IF points[Head(ids)] > 0
                      THEN SubsidyFor(Head(ids), points[Head(ids)], points_value,
                                      coupon_type, field, coupon_id)
                      ELSE <<>>
         IN  stmts \o SubsidyLoop(Tail(ids), points, points_value, coupon_type, field,
                                  IF stmts = <<>> THEN coupon_id ELSE coupon_id + 1)

UserIdOrder == <<1, 2, 3>>

CouponsIn(stmts) == Len(SelectSeq(stmts, LAMBDA x : x.k = "coupon"))

\* the transaction of the run: the users loop over the rows read before it, then the
\* merchants loop over the rows its own SELECT returns
SubsidyTransaction(dc, seen) ==
    LET points_value == PointsValue(seen)
        users == SubsidyLoop(UserIdOrder, seen.users, points_value, "user",
                             "member_points", Len(dc.coupons) + 1)
        merchants == SubsidyLoop(UserIdOrder, [u \in Users |-> dc.users[u].merchant_points],
                                 points_value, "merchant", "merchant_points",
                                 Len(dc.coupons) + 1 + CouponsIn(users))
    IN  users \o merchants

\* the run that also takes what it hands out from the subsidy pool
DistributeSpendingPool(dc, seen) ==
    LET stmts == SubsidyTransaction(dc, seen)
        handed == SelectSeq(stmts, LAMBDA x : x.k = "coupon")
    IN  Ok(stmts \o <<UpdPool("subsidy_pool",
                              -SumSeq([i \in 1..Len(handed) |-> handed[i].row.amount]))>>)

\* the run from its transaction on, with what it read before: dc is the database
\* when the transaction runs
distribute_weekly_subsidy(dc, seen) == Ok(SubsidyTransaction(dc, seen))

SubsidyPools == {0, 1200}
MerchantPointsHeld == {0, 400}

InitSubsidy ==
    /\ \E pool \in SubsidyPools, points \in MerchantPointsHeld :
          db = [InitDb("user") EXCEPT !.finance_accounts["subsidy_pool"] = pool,
                                      !.finance_accounts["company_points"] = 200,
                                      !.users[1].merchant_points = points]
    /\ last = NoCall
    /\ pre = Before(db)
    /\ snap = NoSnap
    /\ req = NoReq
    /\ calls = 0
    /\ h = <<>>
    /\ sess = NoSession
    /\ proc = <<>>

\* the run starts: it returns False on an empty pool or no points, else goes on with
\* what it has read
SubsidyStart ==
    /\ sess.pc = "none"
    /\ LET seen == SubsidyReads(db)
       IN  sess' = IF seen.pool_balance <= 0 \/ TotalPoints(seen) <= 0
                   THEN [pc |-> "done", ok |-> FALSE, start |-> db, seen |-> seen]
                   ELSE [pc |-> "read", ok |-> FALSE, start |-> db, seen |-> seen]
    /\ UNCHANGED <<db, last, pre, snap, calls, h, proc, req>>

\* the transaction runs and commits
SubsidyCommit ==
    /\ sess.pc = "read"
    /\ db' = ExecAll(db, distribute_weekly_subsidy(db, sess.seen).stmts)
    /\ sess' = [sess EXCEPT !.pc = "done", !.ok = TRUE]
    /\ UNCHANGED <<last, pre, snap, calls, h, proc, req>>

\* a statement of the transaction raises: rollback, return False
SubsidyRollback ==
    /\ sess.pc = "read"
    /\ sess' = [sess EXCEPT !.pc = "done", !.ok = FALSE]
    /\ UNCHANGED <<db, last, pre, snap, calls, h, proc, req>>

SubsidyProducts == {"vip", "shop"}

\* a settle_order call of another request, before, during or after the run
SubsidySettle ==
    \E user_id \in Buyers, product_id \in SubsidyProducts :
        LET order_no == <<Len(db.orders) + 1>>
        IN  /\ calls < MaxSubsidyCalls
            /\ Return("settle_order", order_no,
                      settle_order(db, order_no, user_id, product_id, 1, 0))
            /\ snap' = NoSnap
            /\ req' = [op |-> "settle_order", order_no |-> order_no, user_id |-> user_id,
                       product_id |-> product_id, quantity |-> 1,
                       points_to_use |-> 0, before |-> db]

NextSubsidy == SubsidyStart \/ SubsidyCommit \/ SubsidyRollback \/ SubsidySettle

SpecSubsidy == InitSubsidy /\ [][NextSubsidy]_vars

PointFields == {"member_points", "merchant_points"}

PointsLogType(f) == IF f = "member_points" THEN "member" ELSE "merchant"
SubsidyCouponType(f) == IF f = "member_points" THEN "user" ELSE "merchant"

\* the points credited to field f of user u since the run started
CreditedSinceStart(u, f) ==
    SumSeq([i \in 1..(Len(db.points_log) - Len(sess.start.points_log)) |->
              LET row == db.points_log[Len(sess.start.points_log) + i]
              IN  IF row.user_id = u /\ row.type = PointsLogType(f)
                  THEN row.change_amount ELSE 0])

\* the points_deducted the run recorded for field f of user u
DeductedFor(u, f) ==
    SumSeq([i \in 1..Len(db.weekly_subsidy_records) |->
              LET row == db.weekly_subsidy_records[i]
              IN  IF row.user_id = u
                     /\ db.coupons[row.coupon_id].coupon_type = SubsidyCouponType(f)
                  THEN row.points_deducted ELSE 0])

\* C32: no point credit is lost to the weekly subsidy: once the run has succeeded,
\* every holder's member_points and merchant_points equal the balance before the
\* run plus all credits since then minus the points_deducted recorded for the holder.
C32_NoCreditLostToSubsidy ==
    (sess.pc = "done" /\ sess.ok) =>
        \A u \in Users, f \in PointFields :
            db.users[u][f] = sess.start.users[u][f] + CreditedSinceStart(u, f)
                                - DeductedFor(u, f)

\* the tables the run may write
SubsidyTables == {"users", "coupons", "weekly_subsidy_records"}

\* C33: a step of distribute_weekly_subsidy, committing or aborting, leaves the
\* subsidy_pool and company_points balances (and every other pool) unchanged; it
\* changes only users' member_points and merchant_points and adds coupons and
\* weekly_subsidy_records rows.
C33_SubsidyFrame ==
    [][(sess' # sess) =>
         /\ db'.finance_accounts = db.finance_accounts
         /\ \A t \in DOMAIN db \ SubsidyTables : db'[t] = db[t]
         /\ \A u \in Users : \A f \in DOMAIN db.users[u] \ PointFields :
                db'.users[u][f] = db.users[u][f]
         /\ SubSeq(db'.coupons, 1, Len(db.coupons)) = db.coupons
         /\ SubSeq(db'.weekly_subsidy_records, 1, Len(db.weekly_subsidy_records))
               = db.weekly_subsidy_records
         /\ (~sess'.ok => db' = db)]_vars

\* C33 witness: a run has committed, handing out coupons from a funded pool.
C33_Witness ==
    /\ sess.pc = "done"
    /\ sess.ok
    /\ Len(db.weekly_subsidy_records) > 0
    /\ db.finance_accounts["subsidy_pool"] > 0
    /\ db.users[2].member_points = 0

\* the order a refund_order call was about, as it was before the call
RefundedOrder == req.before.orders[OrderId(req.before, req.order_no)]

\* the call was refund_order for a membership order, not yet refunded, whose buyer
\* has a referrer, with the platform revenue pool able to pay the refund
ReferredMemberRefund ==
    /\ req.op = "refund_order"
    /\ OrderIds(req.before, req.order_no) # {}
    /\ RefundedOrder.is_member_order
    /\ ~RefundedAlready(RefundedOrder)
    /\ req.before.user_referrals[RefundedOrder.user_id] # NoUser
    /\ _check_pool_balance(req.before, "platform_revenue_pool",
                           Mul(RefundedOrder.total_amount, 800))

\* C34: refunding a membership order whose buyer has a referrer succeeds whether or
\* not the referrer can cover the reversal: the referrer's promotion_balance goes
\* down by 50% of the order's original amount when it is at least that much and is
\* unchanged otherwise, and it is never negative.
C34_ReferredRefundSucceeds ==
    ReferredMemberRefund =>
        LET referrer == req.before.user_referrals[RefundedOrder.user_id]
            reward_amount == Mul(RefundedOrder.original_amount, 500)
            held == req.before.users[referrer].promotion_balance
        IN  /\ last.ok
            /\ db.users[referrer].promotion_balance
                  = IF held >= reward_amount THEN held - reward_amount ELSE held
            /\ db.users[referrer].promotion_balance >= 0

----------------------------------------------------------------------------
(* audit_withdrawal on withdrawals rows that apply_withdrawal did not write *)

LegacyAmounts == {300, 500}

\* a withdrawals row inserted by hand: nothing was debited and no account_flow row
\* was written for it
LegacyRow(amount, status, withdrawal_type) ==
    [user_id |-> 2, amount |-> amount, tax_amount |-> Mul(amount, TAX_RATE),
     actual_amount |-> amount - Mul(amount, TAX_RATE), status |-> status,
     withdrawal_type |-> withdrawal_type]

InitLegacy ==
    /\ \E wd_default \in WithdrawalTypes, amount \in LegacyAmounts,
          status \in PendingStatuses :
          db = [InitDb(wd_default) EXCEPT
                   !.withdrawals = <<LegacyRow(amount, status, wd_default)>>]
    /\ last = NoCall
    /\ pre = Before(db)
    /\ snap = NoSnap
    /\ req = NoReq
    /\ calls = 0
    /\ h = <<>>
    /\ sess = NoSession
    /\ proc = <<>>

LegacyApply ==
    \E user_id \in Users, amount \in WithdrawAmounts, withdrawal_type \in WithdrawalTypes :
        LET r == apply_withdrawal(db, user_id, amount, withdrawal_type)
        IN  /\ calls < MaxLegacyCalls
            /\ Return("apply_withdrawal", <<>>, r)
            /\ snap' = IF r.ok
                       THEN [order |-> <<>>, before |-> db,
                             withdrawal_id |-> Len(db.withdrawals) + 1]
                       ELSE NoSnap
            /\ req' = [op |-> "apply_withdrawal", user_id |-> user_id, amount |-> amount,
                       withdrawal_type |-> withdrawal_type, before |-> db]

\* snap keeps the application when the next call is the audit of its withdrawal
LegacyAudit ==
    \E withdrawal_id \in 1..Len(db.withdrawals), approve \in BOOLEAN :
        /\ calls < MaxLegacyCalls
        /\ Return("audit_withdrawal", <<>>, audit_withdrawal(db, withdrawal_id, approve))
        /\ snap' = IF snap # NoSnap /\ last.op = "apply_withdrawal"
                      /\ snap.withdrawal_id = withdrawal_id
                   THEN snap ELSE NoSnap
        /\ req' = [op |-> "audit_withdrawal", withdrawal_id |-> withdrawal_id,
                   approve |-> approve, before |-> db]

NextLegacy == LegacyApply \/ LegacyAudit

SpecLegacy == InitLegacy /\ [][NextLegacy]_vars

\* withdrawal i has the audit row apply_withdrawal writes when it debits the amount
HasFreezeRow(d, i) ==
    \E n \in 1..Len(d.account_flow) : d.account_flow[n].remark = Remark("withdraw_freeze", i)

\* C35: an approving audit_withdrawal debits the amount from the user's balance when
\* the withdrawal has no freeze audit row, and debits nothing further when it has one.
C35_ApprovalDebitsUnfrozen ==
    (req.op = "audit_withdrawal" /\ req.approve /\ last.ok) =>
        LET w == req.before.withdrawals[req.withdrawal_id]
            field == BalanceField(w.withdrawal_type)
        IN  db.users[w.user_id][field]
               = req.before.users[w.user_id][field]
                    - (IF HasFreezeRow(req.before, req.withdrawal_id) THEN 0 ELSE w.amount)

\* the last two calls were a successful apply_withdrawal and the successful rejection
\* of the withdrawal it created
AppliedThenRejected ==
    /\ req.op = "audit_withdrawal" /\ ~req.approve /\ last.ok
    /\ snap # NoSnap

\* C38: apply_withdrawal followed by a rejecting audit_withdrawal conserves money:
\* company_balance is back at its value from before the application, and the sum of
\* the user's balance and company_balance is what it was before the application.
C38_RejectionConservesMoney ==
    AppliedThenRejected =>
        LET w == db.withdrawals[req.withdrawal_id]
            field == FrozenField(db, req.withdrawal_id)
        IN  /\ db.finance_accounts["company_balance"]
                  = snap.before.finance_accounts["company_balance"]
            /\ db.users[w.user_id][field] + db.finance_accounts["company_balance"]
                  = snap.before.users[w.user_id][field]
                       + snap.before.finance_accounts["company_balance"]

----------------------------------------------------------------------------
(* The payment handler and the settlement of the order *)

\* delivery p has moved its order out of pending_pay and committed
MarkedPaid(p) == h[p].pc = "done" /\ h[p].rowcount = 1

\* C36: handle_transaction_success moves an order out of pending_pay only if the
\* order's settlement completed: when settle_order raises the order stays
\* pending_pay, and no order is marked paid with its settlement skipped.
C36_PaidOnlyWhenSettled ==
    \A p \in Deliveries :
        /\ MarkedPaid(p) => h[p].settled
        /\ (h[p].pc = "done" /\ h[p].id # 0 /\ IsPendingPay(h[p].seen) /\ ~h[p].settled)
              => db.orders[h[p].id].status = "pending_pay"

----------------------------------------------------------------------------
(* FinanceService.check_director_promotion, UserService.set_status *)

DirectorUsers == 1..12

\* the n-th referrer above u, NoUser when the chain ends before
RECURSIVE ReferrerAbove(_, _, _)
ReferrerAbove(dc, u, n) ==
    IF u = NoUser THEN NoUser
    ELSE IF n = 0 THEN u
    ELSE ReferrerAbove(dc, dc.user_referrals[u], n - 1)

\* SELECT COUNT(DISTINCT u.id) FROM user_referrals ur JOIN users u ON ur.user_id = u.id
\*   WHERE ur.referrer_id = %s AND u.member_level = 6
DirectSixStars(dc, user_id) ==
    Cardinality({u \in DirectorUsers : /\ dc.user_referrals[u] = user_id
                                       /\ dc.users[u].member_level = 6})

\* WITH RECURSIVE team ... WHERE t.level < 6: the users one to six referrals below
\* user_id, counted when at level 6
TeamSixStars(dc, user_id) ==
    Cardinality({u \in DirectorUsers :
                    /\ \E n \in 1..6 : ReferrerAbove(dc, u, n) = user_id
                    /\ dc.users[u].member_level = 6})

\* UPDATE users SET status = 9 WHERE id = %s AND status != 9, for every level-6 user
\* with direct_count >= 3 and total_count >= 10
check_director_promotion(dc) ==
    [dc EXCEPT !.users =
        [u \in DirectorUsers |->
            IF /\ dc.users[u].member_level = 6
               /\ DirectSixStars(dc, u) >= 3
               /\ TeamSixStars(dc, u) >= 10
               /\ dc.users[u].status # 9
            THEN [dc.users[u] EXCEPT !.status = 9]
            ELSE dc.users[u]]]

\* UserStatus: NORMAL, FROZEN, DELETED
UserStatuses == {0, 1, 2}

\* UPDATE users SET status = %s WHERE mobile = %s, when the status differs
set_status(dc, u, new_status) ==
    IF new_status \notin UserStatuses \/ dc.users[u].status = new_status THEN dc
    ELSE [dc EXCEPT !.users[u].status = new_status]

\* referral trees below user 1: eleven direct referrals; three direct referrals with
\* a chain down to the sixth layer; three direct referrals with a chain going deeper
\* than six layers; two direct referrals
ReferralTrees ==
    {[u \in DirectorUsers |-> IF u = 1 THEN NoUser ELSE 1],
     [u \in DirectorUsers |-> IF u = 1 THEN NoUser
                              ELSE IF u \in {2, 3, 4} THEN 1
                              ELSE IF u = 5 THEN 2
                              ELSE IF u \in 6..9 THEN u - 1
                              ELSE IF u \in {10, 11} THEN 3 ELSE 4],
     [u \in DirectorUsers |-> IF u = 1 THEN NoUser
                              ELSE IF u \in {2, 3, 4} THEN 1
                              ELSE IF u = 5 THEN 2 ELSE u - 1],
     [u \in DirectorUsers |-> IF u = 1 THEN NoUser
                              ELSE IF u \in {2, 3} THEN 1 ELSE 2]}

\* member levels: everybody at six stars; three of the team below; user 1 below
LevelsHeld ==
    {[u \in DirectorUsers |-> 6],
     [u \in DirectorUsers |-> IF u \in {10, 11, 12} THEN 3 ELSE 6],
     [u \in DirectorUsers |-> IF u = 1 THEN 5 ELSE 6]}

InitDirector ==
    /\ \E tree \in ReferralTrees, levels \in LevelsHeld :
          db = [users |-> [u \in DirectorUsers |->
                              [member_level |-> levels[u], status |-> 0]],
                user_referrals |-> tree]
    /\ last = NoCall
    /\ pre = <<>>
    /\ snap = NoSnap
    /\ req = NoReq
    /\ calls = 0
    /\ h = <<>>
    /\ sess = NoSession
    /\ proc = <<>>

StatusChanged == {1, 2}

SetStatus ==
    \E u \in StatusChanged, new_status \in UserStatuses :
        /\ calls < MaxDirectorCalls
        /\ calls' = calls + 1
        /\ db' = set_status(db, u, new_status)
        /\ req' = [op |-> "set_status", user_id |-> u, before |-> db]
        /\ UNCHANGED <<last, pre, snap, h, sess, proc>>

CheckDirectorPromotion ==
    /\ calls < MaxDirectorCalls
    /\ calls' = calls + 1
    /\ db' = check_director_promotion(db)
    /\ req' = [op |-> "check_director_promotion", before |-> db]
    /\ UNCHANGED <<last, pre, snap, h, sess, proc>>

NextDirector == SetStatus \/ CheckDirectorPromotion

SpecDirector == InitDirector /\ [][NextDirector]_vars

\* C39: check_director_promotion changes a user's status only from normal (0) to
\* honor-director (9), and only for level-6 users with at least 3 direct level-6
\* referrals and at least 10 level-6 team members; a frozen or deleted user is never
\* switched to 9 and no other user's status changes.
C39_PromotionOnlyFromNormal ==
    req.op = "check_director_promotion" =>
        \A u \in DirectorUsers :
            db.users[u].status # req.before.users[u].status =>
                /\ req.before.users[u].status = 0
                /\ db.users[u].status = 9
                /\ req.before.users[u].member_level = 6
                /\ DirectSixStars(req.before, u) >= 3
                /\ TeamSixStars(req.before, u) >= 10

----------------------------------------------------------------------------
(* What split_order_funds distributes *)

\* what the call credited to the merchant and to the eight pools together
SplitMerchantCredit ==
    db.users[SPLIT_MERCHANT_ID].merchant_balance
        - req.before.users[SPLIT_MERCHANT_ID].merchant_balance

SplitPoolCredits ==
    SumOver(SubPools, [a \in SubPools |->
                          db.finance_accounts[a] - req.before.finance_accounts[a]])

\* C40: split_order_funds distributes the whole order amount: the merchant credit
\* (80% of the total) plus the eight pool credits equals the order total, the pools
\* together receiving the remaining 20%.
C40_SplitDistributesWholeAmount ==
    (req.op = "split_order_funds" /\ last.ok) =>
        /\ SplitMerchantCredit = Mul(req.total, 800)
        /\ SplitPoolCredits = Mul(req.total, 200)
        /\ SplitMerchantCredit + SplitPoolCredits = req.total
====
